---- MODULE Spec2Model ----
(***************************************************************************)
(* A model of two primitives of the repository:                            *)
(*                                                                         *)
(*   - credentialsCache (lib/integrations/externalcloudaudit/              *)
(*     configurator.go): a cache of AWS credentials refreshed by a         *)
(*     background loop, read through Retrieve;                             *)
(*   - Interval (package interval): a resettable periodic trigger.         *)
(*                                                                         *)
(* The cache's time is counted in units of refreshCheckInterval (30 s).    *)
(***************************************************************************)
EXTENDS Integers, Sequences, FiniteSets, TLC

VARIABLES
    now,            \* the clock (clockwork.Clock.Now)
    \* ---- credentialsCache ----
    ctxDone,        \* the owning context of run() is cancelled
    generateFn,     \* cc.generateOIDCTokenFn: "nil" or an issuer
    initialized,    \* cc.initialized is closed
    gotFirst,       \* cc.gotFirstCredsOrErr is closed
    cache,          \* cc.credsOrErr, field by field
    wlock,          \* credsOrErrMu is held by the writer (Lock)
    rlocks,         \* the readers that hold credsOrErrMu (RLock)
    pc,             \* where run() is
    credsFromCache, \* refreshIfNeeded's local copy of the cached creds
    pending,        \* setCredsOrErr's argument coe
    wi,             \* setCredsOrErr: how many fields of coe are copied
    stsDeadline,    \* deadline of refresh()'s context.WithTimeout
    tickerOn,       \* run()'s ticker exists and is not stopped
    tickerNext,     \* when the ticker fires next
    tickChan,       \* ticker.Chan() holds a tick (capacity 1)
    rpc,            \* each Retrieve caller: "idle" or "reading"
    ri,             \* each Retrieve caller: how many fields it has read
    rbuf,           \* each Retrieve caller: the results it has copied so far
    wpc,            \* each waitForFirstCredsOrErr caller: "idle", "waiting",
                    \* or "cancelled" (waiting, its context cancelled)
    \* ---- history of the cache (not program state) ----
    lastErr,        \* the outcome of the latest issuer invocation
    cancelledFirst, \* the context was cancelled when initialized was open
    calls,          \* issuer invocations begun since the last store
    refreshAt,      \* when the refresh attempt in progress began
    \* ---- Interval ----
    cfgDuration,    \* cfg.Duration
    cfgFirst,       \* cfg.FirstDuration
    cfgJitter,      \* cfg.Jitter is not nil
    cfgSkew,        \* time.Now() minus cfg.Clock.Now(): 0 when cfg.Clock is
                    \* nil or the real clock
    tActive,        \* the timer is armed
    tDeadline,      \* when the armed timer fires
    tChan,          \* timer.Chan(): None or the time of the firing it holds
    runPc,          \* where run(timer) is: "none" (New not called),
                    \* "panicked" (New panicked), "noop" (NewNoop: there
                    \* is no run), "select", "blocked", "exited"
    tick,           \* run's variable tick
    chSet,          \* run's variable ch is i.ch (not nil)
    outBuf,         \* i.ch: the triggers it holds, oldest first
    done,           \* i.done is closed
    closeOnce,      \* i.closeOnce has run its function
    cpc,            \* each caller: "idle", in "reset" (Reset), in "fire" (FireNow)
    \* ---- history of the interval (not program state) ----
    resetCallAt,    \* when the earliest of the Reset calls in progress was
                    \* made, None when there is none
    resetUntil,     \* the time of the latest Reset call run has received,
                    \* plus the shortest period; None before it and after a
                    \* later FireNow
    resetSeen,      \* run has received a Reset
    tickStop,       \* i.done was closed when run set the tick it holds
    nFire,          \* FireNow requests run has received
    timerSeen,      \* run has received a firing of the timer
    nGot,           \* triggers consumed from Next()
    lastGot,        \* the timestamp of the trigger consumed last
    closes,         \* executions of close(i.done)
    tasks,          \* executions of "go interval.run(timer)"
    stopAgain,      \* Stop was called when i.closeOnce had run
    env,            \* a SafeEnv: the entries, each a sequence of characters
    lastOp,         \* "unique" or "trusted": the kind of the last add to env
    apc,            \* each caller of setGenerateOIDCTokenFn: "idle", or
                    \* "wrote" once it has assigned cc.generateOIDCTokenFn
    nAttach,        \* calls of setGenerateOIDCTokenFn begun
    initCloses      \* executions of close(initialized)

cacheVars == <<ctxDone, generateFn, initialized, gotFirst, cache, wlock, rlocks,
               pc, credsFromCache, pending, wi, stsDeadline, tickerOn,
               tickerNext, tickChan, rpc, ri, rbuf, wpc, lastErr,
               cancelledFirst, refreshAt>>

ivVars == <<cfgDuration, cfgFirst, cfgJitter, cfgSkew, tActive, tDeadline,
            tChan, runPc, tick, chSet, outBuf, done, closeOnce, cpc,
            resetCallAt, resetUntil, resetSeen, tickStop, nFire, timerSeen,
            nGot, lastGot, closes, tasks, stopAgain>>

envVars == <<env, lastOp>>

attachVars == <<apc, nAttach, initCloses>>

vars == <<now, cacheVars, calls, ivVars, envVars, attachVars>>

(***************************************************************************)
(* Program constants, in units of 30 s.                                    *)
(***************************************************************************)
TokenLifetime == 120
refreshBeforeExpirationPeriod == 30
refreshCheckInterval == 1
retrieveTimeout == 1

(***************************************************************************)
(* Bounds of the model.                                                    *)
(***************************************************************************)
MaxTime == 3
\* calls of setGenerateOIDCTokenFn made one step at a time
MaxAttach == 3
MaxTimeHourly == 125

Readers == {1, 2}
\* the callers of AttachIssuer, and the issuers they attach
Attachers == {1, 2}
Issuers == {"fn", "fn2"}
Waiters == {1}

\* What the issuer may answer: errors, and credentials that expire this long
\* after the answer.
IssuerErrors == {"failA", "failB"}
ExpiryOffsets == {0, 1, 2, refreshBeforeExpirationPeriod + 1}

\* no time, no value
None == 0 - 1

NoErr == "nil"
NotInitializedErr == "not yet initialized"

(***************************************************************************)
(* credsOrErr values.                                                      *)
(***************************************************************************)
Fields == <<"key", "secret", "token", "expires", "err">>

EmptyCreds == [key |-> 0, secret |-> 0, token |-> 0, expires |-> 0]

\* The credentials the issuer answers with expiry e: their access key, secret
\* and session token are theirs alone.
Creds(e) == [key |-> e + 1, secret |-> e + 1, token |-> e + 1, expires |-> e]

\* credsOrErr{creds: c}
CredsValue(c) == [key |-> c.key, secret |-> c.secret, token |-> c.token,
                  expires |-> c.expires, err |-> NoErr]

\* credsOrErr{err: e}
ErrValue(e) == [key |-> 0, secret |-> 0, token |-> 0, expires |-> 0, err |-> e]

CredsOf(v) == [key |-> v.key, secret |-> v.secret, token |-> v.token,
               expires |-> v.expires]

\* aws.Credentials.HasKeys
HasKeys(c) == c.key # 0 /\ c.secret # 0

\* a faulty variant: the constructor leaves credsOrErr at its zero value
InitialCredsOrErr_Zero == CredsValue(EmptyCreds)

\* newCredentialsCache: the placeholder stored at construction
InitialCredsOrErr == ErrValue(NotInitializedErr)

\* a faulty variant: the first test forgets refreshBeforeExpirationPeriod
NoNeedToRefresh_NoMargin(v, t) ==
    /\ v.err = NoErr
    /\ HasKeys(CredsOf(v))
    /\ t < v.expires

\* a faulty variant: credentials that expire exactly at the margin are kept
NoNeedToRefresh_AtMargin(v, t) ==
    /\ v.err = NoErr
    /\ HasKeys(CredsOf(v))
    /\ t + refreshBeforeExpirationPeriod <= v.expires

\* refreshIfNeeded's first test: the cached credentials are good for longer
\* than refreshBeforeExpirationPeriod
NoNeedToRefresh(v, t) ==
    /\ v.err = NoErr
    /\ HasKeys(CredsOf(v))
    /\ t + refreshBeforeExpirationPeriod < v.expires

\* a faulty variant: the test on failure asks for refreshBeforeExpirationPeriod too
StillValid_Margin(c, t) ==
    HasKeys(c) /\ t + refreshBeforeExpirationPeriod < c.expires

\* a faulty variant: credentials are still taken as valid at their expiry
StillValid_AtExpiry(c, t) == HasKeys(c) /\ t <= c.expires

\* a faulty variant: the test on failure uses the time refreshIfNeeded began
StillValid_AtPollStart(c, t) == HasKeys(c) /\ refreshAt < c.expires

\* refreshIfNeeded's test on failure: the credentials read at the start are
\* still valid
StillValid(c, t) == HasKeys(c) /\ t < c.expires

\* a result nobody has copied anything into
NoResult == ErrValue("unset")

(***************************************************************************)
(* The cache's initial state: newCredentialsCache has returned and run() has been  *)
(* started (newConfigurator).                                              *)
(***************************************************************************)
CacheInit ==
    /\ ctxDone = FALSE
    /\ generateFn = "nil"
    /\ initialized = FALSE
    /\ gotFirst = FALSE
    /\ cache = InitialCredsOrErr
    /\ wlock = FALSE
    /\ rlocks = {}
    /\ pc = "waitInit"
    /\ credsFromCache = EmptyCreds
    /\ refreshAt = None
    /\ pending = NoResult
    /\ wi = 0
    /\ stsDeadline = 0
    /\ tickerOn = FALSE
    /\ tickerNext = 0
    /\ tickChan = FALSE
    /\ rpc = [r \in Readers |-> "idle"]
    /\ ri = [r \in Readers |-> 0]
    /\ rbuf = [r \in Readers |-> NoResult]
    /\ wpc = [w \in Waiters |-> "idle"]
    /\ lastErr = NoErr
    /\ cancelledFirst = FALSE
    /\ calls = 0
    /\ apc = [a \in Attachers |-> "idle"]
    /\ nAttach = 0
    /\ initCloses = 0

readerVars == <<rlocks, rpc, ri, rbuf>>
tickerVars == <<tickerOn, tickerNext, tickChan>>
writerVars == <<cache, wlock, pending, wi>>

(***************************************************************************)
(* credsOrErrMu (sync.RWMutex): a reader gets the lock unless the writer   *)
(* holds it or waits for it; the writer gets it when no reader holds it.   *)
(***************************************************************************)
\* a faulty variant: Retrieve reads without the lock
CanRLock_Unlocked == TRUE

CanRLock == ~wlock /\ pc # "lock"

\* a faulty variant: Lock does not wait for the readers
CanLock_IgnoresReaders == ~wlock

CanLock == ~wlock /\ rlocks = {}

(***************************************************************************)
(* setGenerateOIDCTokenFn, and the cancellation of run()'s context.        *)
(***************************************************************************)
\* a faulty variant: the channel is closed at every call
CloseInitialized_EveryTime ==
    /\ initialized' = TRUE
    /\ initCloses' = initCloses + 1

\* cc.closeInitialized: sync.OnceFunc(func() { close(initialized) })
CloseInitialized ==
    /\ initialized' = TRUE
    /\ initCloses' = IF initialized THEN initCloses ELSE initCloses + 1

\* one call of setGenerateOIDCTokenFn that no other call overlaps
SetGenerateOIDCTokenFn ==
    /\ generateFn' = "fn"
    /\ CloseInitialized
    /\ UNCHANGED <<envVars, apc, nAttach, ivVars, calls, now, ctxDone, cancelledFirst, gotFirst, writerVars, pc, credsFromCache, refreshAt,
                   stsDeadline, tickerVars, readerVars, wpc, lastErr>>

\* setGenerateOIDCTokenFn, caller a: cc.generateOIDCTokenFn = fn
SetGenerateFnWrite(a, fn) ==
    /\ apc[a] = "idle"
    /\ nAttach < MaxAttach
    /\ nAttach' = nAttach + 1
    /\ generateFn' = fn
    /\ apc' = [apc EXCEPT ![a] = "wrote"]
    /\ UNCHANGED <<envVars, initCloses, ivVars, calls, now, ctxDone, cancelledFirst, initialized, gotFirst, writerVars, pc,
                   credsFromCache, refreshAt, stsDeadline, tickerVars, readerVars, wpc, lastErr>>

\* setGenerateOIDCTokenFn, caller a: cc.closeInitialized(), and the return
SetGenerateFnClose(a) ==
    /\ apc[a] = "wrote"
    /\ CloseInitialized
    /\ apc' = [apc EXCEPT ![a] = "idle"]
    /\ UNCHANGED <<envVars, nAttach, ivVars, calls, now, ctxDone, cancelledFirst, generateFn, gotFirst, writerVars, pc,
                   credsFromCache, refreshAt, stsDeadline, tickerVars, readerVars, wpc, lastErr>>

CancelContext ==
    /\ ~ctxDone
    /\ ctxDone' = TRUE
    /\ cancelledFirst' = ~initialized
    /\ UNCHANGED <<envVars, attachVars, ivVars, calls, now, generateFn, initialized, gotFirst, writerVars, pc,
                   credsFromCache, refreshAt, stsDeadline, tickerVars, readerVars, wpc,
                   lastErr>>

(***************************************************************************)
(* run() and refreshIfNeeded.                                              *)
(***************************************************************************)
\* run() after its first refreshIfNeeded: clock.NewTicker(refreshCheckInterval)
NewTicker ==
    IF tickerOn
       THEN UNCHANGED <<tickerOn, tickerNext>>
       ELSE /\ tickerOn' = TRUE
            /\ tickerNext' = now + refreshCheckInterval

\* a faulty variant: refreshIfNeeded takes credsOrErrMu before it calls refresh()
RefreshIfNeeded_Locked ==
    IF NoNeedToRefresh(cache, now)
       THEN /\ pc' = "select"
            /\ UNCHANGED <<credsFromCache, refreshAt, calls, wlock>>
       ELSE /\ credsFromCache' = CredsOf(cache)
            /\ refreshAt' = now
            /\ pc' = IF generateFn = "nil" THEN "panic" ELSE "gen"
            /\ calls' = calls + 1
            /\ wlock' = TRUE

\* refreshIfNeeded up to the call of refresh(): Retrieve, the test against
\* the clock, and the call of generateOIDCTokenFn, with no lock held.
RefreshIfNeeded ==
    /\ UNCHANGED wlock
    /\ IF NoNeedToRefresh(cache, now)
          THEN /\ pc' = "select"
               /\ UNCHANGED <<credsFromCache, refreshAt, calls>>
          ELSE /\ credsFromCache' = CredsOf(cache)
               /\ refreshAt' = now
               /\ pc' = IF generateFn = "nil" THEN "panic" ELSE "gen"
               /\ calls' = calls + 1

\* a faulty variant: run() does not wait for the initialized channel
RunInitialized_NoLatch ==
    /\ pc = "waitInit"
    /\ RefreshIfNeeded
    /\ IF NoNeedToRefresh(cache, now)
          THEN NewTicker
          ELSE UNCHANGED <<tickerOn, tickerNext>>
    /\ UNCHANGED <<envVars, attachVars, ivVars, now, ctxDone, cancelledFirst, generateFn, initialized, gotFirst, cache,
                   pending, wi, stsDeadline, tickChan, readerVars, wpc, lastErr>>

\* run(): the initialized channel is closed
RunInitialized ==
    /\ pc = "waitInit"
    /\ initialized
    /\ RefreshIfNeeded
    /\ IF NoNeedToRefresh(cache, now)
          THEN NewTicker
          ELSE UNCHANGED <<tickerOn, tickerNext>>
    /\ UNCHANGED <<envVars, attachVars, ivVars, now, ctxDone, cancelledFirst, generateFn, initialized, gotFirst, cache,
                   pending, wi, stsDeadline, tickChan, readerVars, wpc, lastErr>>

\* run(): the context is cancelled before initialized is closed
RunCancelledBeforeInit ==
    /\ pc = "waitInit"
    /\ ctxDone
    /\ pc' = "exited"
    /\ UNCHANGED <<envVars, attachVars, ivVars, calls, now, ctxDone, cancelledFirst, generateFn, initialized, gotFirst, writerVars,
                   credsFromCache, refreshAt, stsDeadline, tickerVars, readerVars, wpc,
                   lastErr>>

\* run(): a tick is received
RunTick ==
    /\ pc = "select"
    /\ tickChan
    /\ tickChan' = FALSE
    /\ RefreshIfNeeded
    /\ UNCHANGED <<envVars, attachVars, ivVars, now, ctxDone, cancelledFirst, generateFn, initialized, gotFirst, cache,
                   pending, wi, stsDeadline, tickerOn, tickerNext, readerVars,
                   wpc, lastErr>>

\* run(): the context is cancelled; the deferred ticker.Stop()
RunCancelled ==
    /\ pc = "select"
    /\ ctxDone
    /\ pc' = "exited"
    /\ tickerOn' = FALSE
    /\ UNCHANGED <<envVars, attachVars, ivVars, calls, now, ctxDone, cancelledFirst, generateFn, initialized, gotFirst, writerVars,
                   credsFromCache, refreshAt, stsDeadline, tickerNext, tickChan,
                   readerVars, wpc, lastErr>>

(***************************************************************************)
(* refresh(): generateOIDCTokenFn(ctx), then roleProvider.Retrieve under   *)
(* context.WithTimeout(ctx, retrieveTimeout).  Both are external: either   *)
(* may fail, and the second may answer any credentials.                    *)
(***************************************************************************)
\* refreshIfNeeded after refresh() failed with e: the test against the
\* clock, then either the return or the call of setCredsOrErr
RefreshFailed(e) ==
    /\ lastErr' = e
    /\ credsFromCache' = EmptyCreds
    /\ refreshAt' = None
    /\ stsDeadline' = 0
    /\ IF StillValid(credsFromCache, now)
          THEN /\ pc' = "select"
               /\ NewTicker
               /\ UNCHANGED pending
          ELSE /\ pending' = ErrValue(e)
               /\ pc' = "lock"
               /\ UNCHANGED <<tickerOn, tickerNext>>

GenerateTokenFails(e) ==
    /\ pc = "gen"
    /\ RefreshFailed(e)
    /\ UNCHANGED <<envVars, attachVars, ivVars, calls, now, ctxDone, cancelledFirst, generateFn, initialized, gotFirst, cache, wlock,
                   wi, tickChan, readerVars, wpc>>

GenerateTokenReturns ==
    /\ pc = "gen"
    /\ pc' = "sts"
    /\ stsDeadline' = now + retrieveTimeout
    /\ UNCHANGED <<envVars, attachVars, ivVars, calls, now, ctxDone, cancelledFirst, generateFn, initialized, gotFirst, writerVars,
                   credsFromCache, refreshAt, tickerVars, readerVars, wpc, lastErr>>

RoleProviderFails(e) ==
    /\ pc = "sts"
    /\ RefreshFailed(e)
    /\ UNCHANGED <<envVars, attachVars, ivVars, calls, now, ctxDone, cancelledFirst, generateFn, initialized, gotFirst, cache, wlock,
                   wi, tickChan, readerVars, wpc>>

\* refreshIfNeeded after refresh() returned creds: the call of setCredsOrErr
RoleProviderReturns(creds) ==
    /\ pc = "sts"
    /\ pending' = CredsValue(creds)
    /\ pc' = "lock"
    /\ lastErr' = NoErr
    /\ credsFromCache' = EmptyCreds
    /\ refreshAt' = None
    /\ stsDeadline' = 0
    /\ UNCHANGED <<envVars, attachVars, ivVars, calls, now, ctxDone, cancelledFirst, generateFn, initialized, gotFirst, cache, wlock,
                   wi, tickerVars, readerVars, wpc>>

(***************************************************************************)
(* setCredsOrErr: Lock, the copy of coe into cc.credsOrErr (one field at a *)
(* time), closeGotFirstCredsOrErr, Unlock.                                 *)
(***************************************************************************)
SetLock ==
    /\ pc = "lock"
    /\ CanLock
    /\ wlock' = TRUE
    /\ wi' = 0
    /\ pc' = "write"
    /\ UNCHANGED <<envVars, attachVars, ivVars, calls, now, ctxDone, cancelledFirst, generateFn, initialized, gotFirst, cache,
                   pending, credsFromCache, refreshAt, stsDeadline, tickerVars, readerVars,
                   wpc, lastErr>>

SetWrite ==
    /\ pc = "write"
    /\ wi < Len(Fields)
    /\ cache' = [cache EXCEPT ![Fields[wi + 1]] = pending[Fields[wi + 1]]]
    /\ wi' = wi + 1
    /\ UNCHANGED <<envVars, attachVars, ivVars, calls, now, ctxDone, cancelledFirst, generateFn, initialized, gotFirst, wlock,
                   pending, pc, credsFromCache, refreshAt, stsDeadline, tickerVars,
                   readerVars, wpc, lastErr>>

\* a faulty variant: the latch is closed for credentials only
CloseGotFirst_CredsOnly == gotFirst' = (gotFirst \/ pending.err = NoErr)

\* closeGotFirstCredsOrErr (a sync.OnceFunc)
CloseGotFirst == gotFirst' = TRUE

SetCloseGotFirst ==
    /\ pc = "write"
    /\ wi = Len(Fields)
    /\ CloseGotFirst
    /\ pc' = "unlock"
    /\ calls' = 0
    /\ UNCHANGED <<envVars, attachVars, ivVars, now, ctxDone, cancelledFirst, generateFn, initialized, writerVars,
                   credsFromCache, refreshAt, stsDeadline, tickerVars, readerVars, wpc,
                   lastErr>>

SetUnlock ==
    /\ pc = "unlock"
    /\ wlock' = FALSE
    /\ pending' = NoResult
    /\ wi' = 0
    /\ pc' = "select"
    /\ NewTicker
    /\ UNCHANGED <<envVars, attachVars, ivVars, calls, now, ctxDone, cancelledFirst, generateFn, initialized, gotFirst, cache,
                   credsFromCache, refreshAt, stsDeadline, tickChan, readerVars, wpc,
                   lastErr>>

(***************************************************************************)
(* Retrieve, by any caller: RLock, the copy of cc.credsOrErr into the      *)
(* results (one field at a time), RUnlock.                                 *)
(***************************************************************************)
RetrieveLock(r) ==
    /\ rpc[r] = "idle"
    /\ CanRLock
    /\ rlocks' = rlocks \cup {r}
    /\ rpc' = [rpc EXCEPT ![r] = "reading"]
    /\ UNCHANGED <<envVars, attachVars, ivVars, calls, now, ctxDone, cancelledFirst, generateFn, initialized, gotFirst, writerVars,
                   pc, credsFromCache, refreshAt, stsDeadline, tickerVars, ri, rbuf, wpc,
                   lastErr>>

RetrieveRead(r) ==
    /\ rpc[r] = "reading"
    /\ ri[r] < Len(Fields)
    /\ rbuf' = [rbuf EXCEPT ![r][Fields[ri[r] + 1]] = cache[Fields[ri[r] + 1]]]
    /\ ri' = [ri EXCEPT ![r] = ri[r] + 1]
    /\ UNCHANGED <<envVars, attachVars, ivVars, calls, now, ctxDone, cancelledFirst, generateFn, initialized, gotFirst, writerVars,
                   pc, credsFromCache, refreshAt, stsDeadline, tickerVars, rlocks, rpc,
                   wpc, lastErr>>

\* the deferred RUnlock and the return of the results in rbuf[r]
RetrieveReturn(r) ==
    /\ rpc[r] = "reading"
    /\ ri[r] = Len(Fields)
    /\ rlocks' = rlocks \ {r}
    /\ rpc' = [rpc EXCEPT ![r] = "idle"]
    /\ rbuf' = [rbuf EXCEPT ![r] = NoResult]
    /\ ri' = [ri EXCEPT ![r] = 0]
    /\ UNCHANGED <<envVars, attachVars, ivVars, calls, now, ctxDone, cancelledFirst, generateFn, initialized, gotFirst, writerVars,
                   pc, credsFromCache, refreshAt, stsDeadline, tickerVars, wpc, lastErr>>

(***************************************************************************)
(* waitForFirstCredsOrErr, by any caller with a context of its own.        *)
(***************************************************************************)
WaitCall(w) ==
    /\ wpc[w] = "idle"
    /\ wpc' = [wpc EXCEPT ![w] = "waiting"]
    /\ UNCHANGED <<envVars, attachVars, ivVars, calls, now, ctxDone, cancelledFirst, generateFn, initialized, gotFirst, writerVars,
                   pc, credsFromCache, refreshAt, stsDeadline, tickerVars, readerVars,
                   lastErr>>

\* the context of caller w is cancelled while it waits
WaitCtxCancelled(w) ==
    /\ wpc[w] = "waiting"
    /\ wpc' = [wpc EXCEPT ![w] = "cancelled"]
    /\ UNCHANGED <<envVars, attachVars, ivVars, calls, now, ctxDone, cancelledFirst, generateFn, initialized, gotFirst, writerVars,
                   pc, credsFromCache, refreshAt, stsDeadline, tickerVars, readerVars,
                   lastErr>>

\* a faulty variant: the caller waits for credentials, not for a first result
WaitGotFirst_CredsOnly(w) ==
    /\ wpc[w] \in {"waiting", "cancelled"}
    /\ gotFirst
    /\ cache.err = NoErr
    /\ wpc' = [wpc EXCEPT ![w] = "idle"]
    /\ UNCHANGED <<envVars, attachVars, ivVars, calls, now, ctxDone, cancelledFirst, generateFn, initialized, gotFirst, writerVars,
                   pc, credsFromCache, refreshAt, stsDeadline, tickerVars, readerVars,
                   lastErr>>

\* case <-cc.gotFirstCredsOrErr
WaitGotFirst(w) ==
    /\ wpc[w] \in {"waiting", "cancelled"}
    /\ gotFirst
    /\ wpc' = [wpc EXCEPT ![w] = "idle"]
    /\ UNCHANGED <<envVars, attachVars, ivVars, calls, now, ctxDone, cancelledFirst, generateFn, initialized, gotFirst, writerVars,
                   pc, credsFromCache, refreshAt, stsDeadline, tickerVars, readerVars,
                   lastErr>>

\* case <-ctx.Done(): the caller's context is cancelled
WaitCancelled(w) ==
    /\ wpc[w] = "cancelled"
    /\ wpc' = [wpc EXCEPT ![w] = "idle"]
    /\ UNCHANGED <<envVars, attachVars, ivVars, calls, now, ctxDone, cancelledFirst, generateFn, initialized, gotFirst, writerVars,
                   pc, credsFromCache, refreshAt, stsDeadline, tickerVars, readerVars,
                   lastErr>>

(***************************************************************************)
(* The clock.  The ticker puts a tick in its channel every                 *)
(* refreshCheckInterval and drops it when the channel is full; the         *)
(* context of roleProvider.Retrieve expires at stsDeadline.                *)
(***************************************************************************)
\* a faulty variant: no tick is made after an attempt that failed
TickerFires_GivesUp(t) == tickerOn /\ t >= tickerNext /\ lastErr \notin IssuerErrors

TickerFires(t) == tickerOn /\ t >= tickerNext

Advance(limit) ==
    /\ now < limit
    /\ pc = "sts" => now < stsDeadline
    /\ now' = now + 1
    /\ IF TickerFires(now + 1)
          THEN /\ tickChan' = TRUE
               /\ tickerNext' = tickerNext + refreshCheckInterval
          ELSE UNCHANGED <<tickChan, tickerNext>>
    /\ UNCHANGED <<envVars, attachVars, ivVars, calls, ctxDone, cancelledFirst, generateFn, initialized, gotFirst, writerVars, pc,
                   credsFromCache, refreshAt, stsDeadline, tickerOn, readerVars, wpc,
                   lastErr>>

(***************************************************************************)
(* The cache under any issuer and any timing.                              *)
(***************************************************************************)
CacheNext ==
    \/ SetGenerateOIDCTokenFn
    \/ CancelContext
    \/ RunInitialized
    \/ RunCancelledBeforeInit
    \/ RunTick
    \/ RunCancelled
    \/ \E e \in IssuerErrors : GenerateTokenFails(e)
    \/ GenerateTokenReturns
    \/ \E e \in IssuerErrors : RoleProviderFails(e)
    \/ \E d \in ExpiryOffsets : RoleProviderReturns(Creds(now + d))
    \/ SetLock
    \/ SetWrite
    \/ SetCloseGotFirst
    \/ SetUnlock
    \/ \E r \in Readers : RetrieveLock(r)
    \/ \E r \in Readers : RetrieveRead(r)
    \/ \E r \in Readers : RetrieveReturn(r)
    \/ \E w \in Waiters : WaitCall(w)
    \/ \E w \in Waiters : WaitCtxCancelled(w)
    \/ \E w \in Waiters : WaitGotFirst(w)
    \/ \E w \in Waiters : WaitCancelled(w)
    \/ Advance(MaxTime)

(***************************************************************************)
(* Interval.  Its time is counted in abstract units; Duration is           *)
(* cfg.Duration, FirstDurations the values of cfg.FirstDuration tried, and *)
(* a jitter, when one is configured, answers a duration between            *)
(* Duration - JitterSpread and Duration.                                   *)
(***************************************************************************)
Duration == 2
JitterSpread == 1
MaxTimeIv == 2
MaxFire == 2

FirstDurations == {0, 1}

\* a faulty variant: the output channel holds two triggers
ChCapacity_Two == 1 + 1

\* New: ch: make(chan time.Time, 1)
ChCapacity == 1
Callers == {1, 2}


\* Interval.duration: the least it may return
MinDuration == IF cfgJitter THEN cfgDuration - JitterSpread ELSE cfgDuration

\* Interval.duration: what one call may return
DurationValues == IF cfgJitter THEN (cfgDuration - JitterSpread) .. cfgDuration
                               ELSE {cfgDuration}

\* New has not been called: no timer, no run(timer), no caller
IntervalUnbuilt ==
    /\ tasks = 0
    /\ tActive = FALSE
    /\ tDeadline = 0
    /\ tChan = None
    /\ runPc = "none"
    /\ tick = 0
    /\ chSet = FALSE
    /\ outBuf = <<>>
    /\ done = FALSE
    /\ closeOnce = FALSE
    /\ closes = 0
    /\ stopAgain = FALSE
    /\ cpc = [c \in Callers |-> "idle"]
    /\ resetCallAt = None
    /\ resetUntil = None
    /\ resetSeen = FALSE
    /\ tickStop = FALSE
    /\ nFire = 0
    /\ timerSeen = FALSE
    /\ nGot = 0
    /\ lastGot = None

\* no interval exists (the cache is studied alone)
IntervalIdle ==
    /\ cfgDuration = Duration
    /\ cfgFirst = 0
    /\ cfgJitter = FALSE
    /\ cfgSkew = 0
    /\ IntervalUnbuilt

\* New(cfg) has returned, for a cfg with Duration > 0: the timer is armed
\* with the first duration and run(timer) is started
IntervalStarted ==
    /\ cfgDuration = Duration
    /\ cfgFirst \in FirstDurations
    /\ cfgJitter \in BOOLEAN
    /\ tasks = 1
    /\ tActive = TRUE
    /\ tDeadline \in (IF cfgFirst = 0 THEN DurationValues ELSE {cfgFirst})
    /\ tChan = None
    /\ runPc = "select"
    /\ tick = 0
    /\ chSet = FALSE
    /\ outBuf = <<>>
    /\ done = FALSE
    /\ closeOnce = FALSE
    /\ closes = 0
    /\ stopAgain = FALSE
    /\ cpc = [c \in Callers |-> "idle"]
    /\ resetCallAt = None
    /\ resetUntil = None
    /\ resetSeen = FALSE
    /\ tickStop = FALSE
    /\ nFire = 0
    /\ timerSeen = FALSE
    /\ nGot = 0
    /\ lastGot = None

\* an interval on the real clock
IntervalInit == IntervalStarted /\ cfgSkew = 0

\* an interval on a clock of its own, behind time.Now()
ClockSkews == {1 + 1}

IntervalInitOwnClock == IntervalStarted /\ cfgSkew \in ClockSkews

ivHist == <<resetCallAt, resetUntil, resetSeen, tickStop, nFire, timerSeen, nGot,
            lastGot>>
ivCfg == <<cfgDuration, cfgFirst, cfgJitter, cfgSkew>>
ivLife == <<done, closeOnce, closes, stopAgain, tasks>>

\* New has returned an Interval
Exists == runPc \notin {"none", "panicked"}

(***************************************************************************)
(* New(cfg), called with a cfg that may hold any period.                   *)
(***************************************************************************)
\* the values of cfg.Duration New is called with
Periods == {0 - 1, 0, Duration}

\* a faulty variant: only a negative period is refused
PeriodRejected_Negative == cfgDuration < 0

\* if cfg.Duration <= 0 { panic(...) }
PeriodRejected == cfgDuration <= 0

\* a faulty variant: a zero cfg.FirstDuration is used as it is
FirstDurationValues_Immediate == {cfgFirst}

\* firstDuration: cfg.FirstDuration, or i.duration() when that is zero
FirstDurationValues == IF cfgFirst = 0 THEN DurationValues ELSE {cfgFirst}

New ==
    /\ runPc = "none"
    /\ IF PeriodRejected
          THEN /\ runPc' = "panicked"
               /\ UNCHANGED <<tActive, tDeadline, tasks>>
          ELSE /\ \E d \in FirstDurationValues :
                     /\ tActive' = TRUE
                     /\ tDeadline' = now + d
               /\ tasks' = tasks + 1
               /\ runPc' = "select"
    /\ UNCHANGED <<envVars, attachVars, cacheVars, calls, now, ivCfg, tChan, tick, chSet, outBuf,
                   done, closeOnce, closes, stopAgain, cpc, ivHist>>

(***************************************************************************)
(* The callers: Stop, Reset, FireNow, and the consumer of Next().          *)
(***************************************************************************)
\* a faulty variant: every call of Do runs the function
OnceFresh_Always == TRUE

\* sync.Once.Do runs its function when no call of Do has run it
OnceFresh == ~closeOnce

\* a faulty variant: Stop also discards what i.ch holds
Stop_DropsBuffered ==
    /\ Exists
    /\ IF OnceFresh
          THEN /\ closeOnce' = TRUE
               /\ closes' = closes + 1
               /\ done' = TRUE
               /\ outBuf' = <<>>
               /\ UNCHANGED stopAgain
          ELSE /\ stopAgain' = TRUE
               /\ UNCHANGED <<done, closeOnce, closes, outBuf>>
    /\ UNCHANGED tasks
    /\ UNCHANGED <<envVars, attachVars, cacheVars, calls, now, ivCfg, tActive, tDeadline, tChan,
                   runPc, tick, chSet, cpc, ivHist>>

\* Stop: closeOnce.Do(close(i.done))
Stop ==
    /\ Exists
    /\ IF OnceFresh
          THEN /\ closeOnce' = TRUE
               /\ closes' = closes + 1
               /\ done' = TRUE
               /\ UNCHANGED stopAgain
          ELSE /\ stopAgain' = TRUE
               /\ UNCHANGED <<done, closeOnce, closes>>
    /\ UNCHANGED tasks
    /\ UNCHANGED <<envVars, attachVars, cacheVars, calls, now, ivCfg, tActive, tDeadline, tChan,
                   runPc, tick, chSet, outBuf, cpc, ivHist>>

\* Reset is called: the caller enters its select
ResetCall(c) ==
    /\ Exists
    /\ cpc[c] = "idle"
    /\ cpc' = [cpc EXCEPT ![c] = "reset"]
    /\ resetCallAt' = IF resetCallAt = None THEN now ELSE resetCallAt
    /\ UNCHANGED <<envVars, attachVars, cacheVars, calls, now, ivCfg, tActive, tDeadline, tChan,
                   runPc, tick, chSet, outBuf, ivLife, resetUntil, resetSeen,
                   tickStop, nFire, timerSeen, nGot, lastGot>>

\* FireNow is called: the caller enters its select
FireNowCall(c) ==
    /\ Exists
    /\ cpc[c] = "idle"
    /\ nFire + Cardinality({d \in Callers : cpc[d] = "fire"}) < MaxFire
    /\ cpc' = [cpc EXCEPT ![c] = "fire"]
    /\ UNCHANGED <<envVars, attachVars, cacheVars, calls, now, ivCfg, tActive, tDeadline, tChan,
                   runPc, tick, chSet, outBuf, ivLife, ivHist>>

\* caller c's call is over: the Reset calls still in progress
ResetCallLeaves(c) ==
    resetCallAt' = IF \E d \in Callers \ {c} : cpc[d] = "reset"
                      THEN resetCallAt
                      ELSE None

\* a faulty variant: the caller's select has no i.done case
CallAbandoned_NoDoneCase(c) ==
    /\ cpc[c] # "idle"
    /\ FALSE
    /\ UNCHANGED vars

\* Reset or FireNow: case <-i.done
CallAbandoned(c) ==
    /\ cpc[c] # "idle"
    /\ done
    /\ cpc' = [cpc EXCEPT ![c] = "idle"]
    /\ ResetCallLeaves(c)
    /\ UNCHANGED <<envVars, attachVars, cacheVars, calls, now, ivCfg, tActive, tDeadline, tChan,
                   runPc, tick, chSet, outBuf, ivLife, resetUntil, resetSeen,
                   tickStop, nFire, timerSeen, nGot, lastGot>>

\* a consumer receives from Next()
Consume ==
    /\ outBuf # <<>>
    /\ outBuf' = Tail(outBuf)
    /\ nGot' = nGot + 1
    /\ lastGot' = Head(outBuf)
    /\ UNCHANGED <<envVars, attachVars, cacheVars, calls, now, ivCfg, tActive, tDeadline, tChan,
                   runPc, tick, chSet, ivLife, cpc, resetCallAt, resetUntil,
                   resetSeen, tickStop, nFire, timerSeen>>

(***************************************************************************)
(* run(timer): one action for each case of its select.                     *)
(***************************************************************************)
\* timer.Reset(d)
\* a faulty variant: timer.Reset sets the deadline and leaves the timer unarmed
TimerReset_NotArmed(d) ==
    /\ tActive' = FALSE
    /\ tDeadline' = now + d

TimerReset(d) ==
    /\ tActive' = TRUE
    /\ tDeadline' = now + d

\* "if !timer.Stop() { <-timer.Chan() }" can go on: the timer was armed, or
\* its channel holds the firing to drain
DrainReturns == tActive \/ tChan # None

\* a faulty variant: the timer case does not re-arm the timer
RunTimer_NoRearm ==
    /\ runPc = "select"
    /\ tChan # None
    /\ tick' = tChan
    /\ tChan' = None
    /\ chSet' = TRUE
    /\ timerSeen' = TRUE
    /\ tickStop' = done
    /\ UNCHANGED <<envVars, attachVars, cacheVars, calls, now, ivCfg, tActive, tDeadline, runPc,
                   outBuf, ivLife, cpc, resetCallAt, resetUntil, resetSeen,
                   nFire, nGot, lastGot>>

\* a faulty variant: a firing received while a tick is staged unstages it
RunTimer_Unstages ==
    /\ runPc = "select"
    /\ tChan # None
    /\ tick' = tChan
    /\ tChan' = None
    /\ \E d \in DurationValues : TimerReset(d)
    /\ chSet' = ~chSet
    /\ timerSeen' = TRUE
    /\ tickStop' = done
    /\ UNCHANGED <<envVars, attachVars, cacheVars, calls, now, ivCfg, runPc, outBuf, ivLife, cpc,
                   resetCallAt, resetUntil, resetSeen, nFire, nGot, lastGot>>

\* case tick = <-timer.Chan()
RunTimer ==
    /\ runPc = "select"
    /\ tChan # None
    /\ tick' = tChan
    /\ tChan' = None
    /\ \E d \in DurationValues : TimerReset(d)
    /\ chSet' = TRUE
    /\ timerSeen' = TRUE
    /\ tickStop' = done
    /\ UNCHANGED <<envVars, attachVars, cacheVars, calls, now, ivCfg, runPc, outBuf, ivLife, cpc,
                   resetCallAt, resetUntil, resetSeen, nFire, nGot, lastGot>>

\* The rendezvous of a caller's "i.reset <-" or "i.fire <-" with run's
\* receive: one side must be parked in its select when the other arrives,
\* and closing i.done wakes every parked side for its i.done case, so no
\* rendezvous takes place once i.done is closed.
CanRendezvous == ~done

\* a faulty variant: the reset case leaves ch as it was
RunReset_KeepsCh(c) ==
    /\ runPc = "select"
    /\ cpc[c] = "reset"
    /\ CanRendezvous
    /\ resetSeen' = TRUE
    /\ cpc' = [cpc EXCEPT ![c] = "idle"]
    /\ ResetCallLeaves(c)
    /\ tChan' = None
    /\ \E d \in DurationValues : TimerReset(d)
    /\ resetUntil' = resetCallAt + MinDuration
    /\ UNCHANGED <<envVars, attachVars, cacheVars, calls, now, ivCfg, runPc, tick, chSet, outBuf, ivLife,
                   tickStop, nFire, timerSeen, nGot, lastGot>>

\* case <-i.reset, from caller c
RunReset(c) ==
    /\ runPc = "select"
    /\ cpc[c] = "reset"
    /\ CanRendezvous
    /\ resetSeen' = TRUE
    /\ cpc' = [cpc EXCEPT ![c] = "idle"]
    /\ ResetCallLeaves(c)
    /\ IF DrainReturns
          THEN /\ tChan' = None
               /\ \E d \in DurationValues : TimerReset(d)
               /\ resetUntil' = resetCallAt + MinDuration
               /\ chSet' = FALSE
               /\ UNCHANGED runPc
          ELSE /\ runPc' = "blocked"
               /\ tActive' = FALSE
               /\ UNCHANGED <<tDeadline, tChan, chSet, resetUntil>>
    /\ UNCHANGED <<envVars, attachVars, cacheVars, calls, now, ivCfg, tick, outBuf, ivLife, tickStop,
                   nFire, timerSeen, nGot, lastGot>>

\* a faulty variant: the fire case keeps the tick it had
FireTick_Stale == tick

\* time.Now()
WallNow == now + cfgSkew

\* the fire case: tick = time.Now()
FireTick == WallNow

\* a faulty variant: the fire case re-arms the timer without draining it
RunFire_NoDrain(c) ==
    /\ runPc = "select"
    /\ cpc[c] = "fire"
    /\ CanRendezvous
    /\ cpc' = [cpc EXCEPT ![c] = "idle"]
    /\ nFire' = nFire + 1
    /\ tickStop' = done
    /\ \E d \in DurationValues : TimerReset(d)
    /\ tick' = FireTick
    /\ chSet' = TRUE
    /\ resetUntil' = None
    /\ UNCHANGED <<envVars, attachVars, cacheVars, calls, now, ivCfg, tChan, runPc, outBuf, ivLife,
                   resetCallAt, resetSeen, timerSeen, nGot, lastGot>>

\* case <-i.fire, from caller c
RunFire(c) ==
    /\ runPc = "select"
    /\ cpc[c] = "fire"
    /\ CanRendezvous
    /\ cpc' = [cpc EXCEPT ![c] = "idle"]
    /\ nFire' = nFire + 1
    /\ tickStop' = done
    /\ IF DrainReturns
          THEN /\ tChan' = None
               /\ \E d \in DurationValues : TimerReset(d)
               /\ tick' = FireTick
               /\ chSet' = TRUE
               /\ resetUntil' = None
               /\ UNCHANGED runPc
          ELSE /\ runPc' = "blocked"
               /\ tActive' = FALSE
               /\ UNCHANGED <<tDeadline, tChan, tick, chSet, resetUntil>>
    /\ UNCHANGED <<envVars, attachVars, cacheVars, calls, now, ivCfg, outBuf, ivLife, resetCallAt, resetSeen,
                   timerSeen, nGot, lastGot>>

\* a faulty variant: the send case leaves ch set
RunSend_KeepsCh ==
    /\ runPc = "select"
    /\ chSet
    /\ Len(outBuf) < ChCapacity
    /\ outBuf' = Append(outBuf, tick)
    /\ UNCHANGED <<envVars, attachVars, cacheVars, calls, now, ivCfg, tActive, tDeadline, tChan,
                   runPc, tick, chSet, ivLife, cpc, ivHist>>

\* case ch <- tick
RunSend ==
    /\ runPc = "select"
    /\ chSet
    /\ Len(outBuf) < ChCapacity
    /\ outBuf' = Append(outBuf, tick)
    /\ chSet' = FALSE
    /\ UNCHANGED <<envVars, attachVars, cacheVars, calls, now, ivCfg, tActive, tDeadline, tChan,
                   runPc, tick, ivLife, cpc, ivHist>>

\* a faulty variant: run returns without the deferred timer.Stop()
RunDone_LeaksTimer ==
    /\ runPc = "select"
    /\ done
    /\ runPc' = "exited"
    /\ UNCHANGED <<envVars, attachVars, cacheVars, calls, now, ivCfg, tActive, tDeadline, tChan, tick, chSet,
                   outBuf, ivLife, cpc, ivHist>>

\* case <-i.done, and the deferred timer.Stop()
RunDone ==
    /\ runPc = "select"
    /\ done
    /\ runPc' = "exited"
    /\ tActive' = FALSE
    /\ UNCHANGED <<envVars, attachVars, cacheVars, calls, now, ivCfg, tDeadline, tChan, tick, chSet,
                   outBuf, ivLife, cpc, ivHist>>

(***************************************************************************)
(* The interval's clock and timer: an armed timer fires when its deadline  *)
(* is reached, before the clock moves on.                                  *)
(***************************************************************************)
TimerFires ==
    /\ tActive
    /\ now >= tDeadline
    /\ tActive' = FALSE
    /\ tChan' = now
    /\ UNCHANGED <<envVars, attachVars, cacheVars, calls, now, ivCfg, tDeadline, runPc, tick, chSet,
                   outBuf, ivLife, cpc, ivHist>>

IntervalAdvance ==
    /\ now < MaxTimeIv
    /\ ~(tActive /\ now >= tDeadline)
    /\ now' = now + 1
    /\ UNCHANGED <<envVars, attachVars, cacheVars, calls, ivVars>>

IntervalNext ==
    \/ Stop
    \/ \E c \in Callers : ResetCall(c)
    \/ \E c \in Callers : FireNowCall(c)
    \/ \E c \in Callers : CallAbandoned(c)
    \/ Consume
    \/ RunTimer
    \/ \E c \in Callers : RunReset(c)
    \/ \E c \in Callers : RunFire(c)
    \/ RunSend
    \/ RunDone
    \/ TimerFires
    \/ IntervalAdvance

(***************************************************************************)
(* SafeEnv (lib/utils/envutils).  A string is a sequence of characters.    *)
(***************************************************************************)
\* entries in the environment
MaxEnv == 3

\* values in one call of AddFullTrusted / AddFullUnique
MaxFull == 2

LowerLetters == <<"a", "b", "c", "d", "e", "f", "g", "h", "i", "j", "k", "l", "m",
                  "n", "o", "p", "q", "r", "s", "t", "u", "v", "w", "x", "y", "z">>
UpperLetters == <<"A", "B", "C", "D", "E", "F", "G", "H", "I", "J", "K", "L", "M",
                  "N", "O", "P", "Q", "R", "S", "T", "U", "V", "W", "X", "Y", "Z">>

\* strings.ToUpper
ToUpper(str) ==
    [i \in 1..Len(str) |->
        IF \E j \in 1..Len(LowerLetters) : LowerLetters[j] = str[i]
          THEN UpperLetters[CHOOSE j \in 1..Len(LowerLetters) : LowerLetters[j] = str[i]]
          ELSE str[i]]

WhiteSpace == {" ", "\t"}

RECURSIVE TrimLeft(_)
TrimLeft(str) ==
    IF str # <<>> /\ Head(str) \in WhiteSpace THEN TrimLeft(Tail(str)) ELSE str

RECURSIVE TrimRight(_)
TrimRight(str) ==
    IF str # <<>> /\ str[Len(str)] \in WhiteSpace
      THEN TrimRight(SubSeq(str, 1, Len(str) - 1))
      ELSE str

\* strings.TrimSpace
TrimSpace(str) == TrimRight(TrimLeft(str))

\* strings.HasPrefix
HasPrefix(str, prefix) ==
    /\ Len(prefix) <= Len(str)
    /\ SubSeq(str, 1, Len(prefix)) = prefix

\* strings.SplitN(kv, "=", 2)[0]: the text before the first "=", or all of
\* kv when it has none
SplitKey(kv) ==
    IF \E i \in 1..Len(kv) : kv[i] = "="
      THEN SubSeq(kv, 1, (CHOOSE i \in 1..Len(kv) :
                             /\ kv[i] = "="
                             /\ \A j \in 1..(i - 1) : kv[j] # "=") - 1)
      ELSE kv

unsafeEnvironmentVars ==
    {<<"L", "D", "_", "A", "S", "S", "U", "M", "E", "_", "K", "E", "R", "N", "E", "L">>,
     <<"L", "D", "_", "A", "U", "D", "I", "T">>,
     <<"L", "D", "_", "B", "I", "N", "D", "_", "N", "O", "W">>,
     <<"L", "D", "_", "B", "I", "N", "D", "_", "N", "O", "T">>,
     <<"L", "D", "_", "D", "Y", "N", "A", "M", "I", "C", "_", "W", "E", "A", "K">>,
     <<"L", "D", "_", "L", "I", "B", "R", "A", "R", "Y", "_", "P", "A", "T", "H">>,
     <<"L", "D", "_", "O", "R", "I", "G", "I", "N", "_", "P", "A", "T", "H">>,
     <<"L", "D", "_", "P", "O", "I", "N", "T", "E", "R", "_", "G", "U", "A", "R", "D">>,
     <<"L", "D", "_", "P", "R", "E", "F", "E", "R", "_", "M", "A", "P", "_", "3", "2", "B", "I", "T", "_", "E", "X", "E", "C">>,
     <<"L", "D", "_", "P", "R", "E", "L", "O", "A", "D">>,
     <<"L", "D", "_", "P", "R", "O", "F", "I", "L", "E">>,
     <<"L", "D", "_", "R", "U", "N", "P", "A", "T", "H">>,
     <<"L", "D", "_", "R", "P", "A", "T", "H">>,
     <<"L", "D", "_", "U", "S", "E", "_", "L", "O", "A", "D", "_", "B", "I", "A", "S">>,
     <<"D", "Y", "L", "D", "_", "I", "N", "S", "E", "R", "T", "_", "L", "I", "B", "R", "A", "R", "I", "E", "S">>,
     <<"D", "Y", "L", "D", "_", "L", "I", "B", "R", "A", "R", "Y", "_", "P", "A", "T", "H">>}

unsafeKey(e, preventDuplicates, key) ==
    IF key = <<>> \/ key = <<"=">>
      THEN FALSE
      ELSE LET upperKey == ToUpper(key)
           IN  \/ upperKey \in unsafeEnvironmentVars
               \/ /\ preventDuplicates
                  /\ \E i \in 1..Len(e) : HasPrefix(ToUpper(e[i]), upperKey \o <<"=">>)

\* SafeEnv.add: the environment after the call
add(e, preventDuplicates, k, v) ==
    LET tk == TrimSpace(k)
        tv == TrimSpace(v)
    IN  IF unsafeKey(e, preventDuplicates, tk)
          THEN e
          ELSE Append(e, tk \o <<"=">> \o tv)

\* SafeEnv.addFull: the environment after the call
RECURSIVE addFull(_, _, _)
addFull(e, preventDuplicates, fullValues) ==
    IF fullValues = <<>>
      THEN e
      ELSE LET kv == TrimSpace(Head(fullValues))
               key == SplitKey(kv)
           IN  addFull(IF unsafeKey(e, preventDuplicates, key) THEN e ELSE Append(e, kv),
                       preventDuplicates, Tail(fullValues))

\* the arguments the adds are called with
EnvKeys ==
    {<<"L", "D", "_", "P", "R", "E", "L", "O", "A", "D">>,
     <<"l", "d", "_", "p", "r", "e", "l", "o", "a", "d">>,
     <<" ", "L", "d", "_", "P", "r", "e", "l", "o", "a", "d">>,
     <<"L", "D", "_", "P", "R", "E", "L", "O", "A", "D", "=", "x">>,
     <<"P", "A", "T", "H">>,
     <<"P", "a", "t", "h", " ">>,
     <<>>}

EnvValues == {<<"a">>, <<" ", "b">>}

FullValues ==
    {<<"P", "A", "T", "H", "=", "a">>,
     <<"p", "a", "t", "h", "=", "b">>,
     <<"L", "D", "_", "P", "R", "E", "L", "O", "A", "D", "=", "a">>,
     <<" ", "l", "d", "_", "p", "r", "e", "l", "o", "a", "d", "=", "b", " ">>,
     <<"P", "A", "T", "H">>,
     <<"=", "a">>}

FullValueLists ==
    UNION {[1..n -> FullValues] : n \in 1..MaxFull}

\* env := &SafeEnv{}
SafeEnvInit == env = <<>> /\ lastOp = "none"

AddTrusted(k, v) ==
    /\ Len(env) < MaxEnv
    /\ env' = add(env, FALSE, k, v)
    /\ lastOp' = "trusted"
    /\ UNCHANGED <<now, cacheVars, calls, ivVars, attachVars>>

AddUnique(k, v) ==
    /\ Len(env) < MaxEnv
    /\ env' = add(env, TRUE, k, v)
    /\ lastOp' = "unique"
    /\ UNCHANGED <<now, cacheVars, calls, ivVars, attachVars>>

AddFullTrusted(fullValues) ==
    /\ Len(env) + Len(fullValues) <= MaxEnv
    /\ env' = addFull(env, FALSE, fullValues)
    /\ lastOp' = "trusted"
    /\ UNCHANGED <<now, cacheVars, calls, ivVars, attachVars>>

AddFullUnique(fullValues) ==
    /\ Len(env) + Len(fullValues) <= MaxEnv
    /\ env' = addFull(env, TRUE, fullValues)
    /\ lastOp' = "unique"
    /\ UNCHANGED <<now, cacheVars, calls, ivVars, attachVars>>

SafeEnvNext ==
    \/ \E k \in EnvKeys, v \in EnvValues : AddTrusted(k, v)
    \/ \E k \in EnvKeys, v \in EnvValues : AddUnique(k, v)
    \/ \E fullValues \in FullValueLists : AddFullTrusted(fullValues)
    \/ \E fullValues \in FullValueLists : AddFullUnique(fullValues)

InitSafeEnv == now = 0 /\ CacheInit /\ IntervalIdle /\ SafeEnvInit

SpecSafeEnv == InitSafeEnv /\ [][SafeEnvNext]_vars

InitInterval == now = 0 /\ CacheInit /\ SafeEnvInit /\ IntervalInit

SpecInterval == InitInterval /\ [][IntervalNext]_vars

\* The interval from the call of New, for every period.
InitNew ==
    /\ now = 0
    /\ CacheInit
    /\ SafeEnvInit
    /\ cfgDuration \in Periods
    /\ cfgFirst \in FirstDurations
    /\ cfgJitter \in BOOLEAN
    /\ cfgSkew = 0
    /\ IntervalUnbuilt

NewNext ==
    \/ New
    \/ Stop
    \/ \E c \in Callers : ResetCall(c)
    \/ \E c \in Callers : FireNowCall(c)
    \/ \E c \in Callers : CallAbandoned(c)
    \/ Consume
    \/ RunTimer
    \/ \E c \in Callers : RunReset(c)
    \/ \E c \in Callers : RunFire(c)
    \/ RunSend
    \/ RunDone
    \/ TimerFires
    \/ IntervalAdvance

SpecNew == InitNew /\ [][NewNext]_vars

\* The interval with cfg.Clock set to a clock that is not the real one.
InitOwnClock == now = 0 /\ CacheInit /\ SafeEnvInit /\ IntervalInitOwnClock

SpecOwnClock == InitOwnClock /\ [][IntervalNext]_vars

InitCache == now = 0 /\ CacheInit /\ SafeEnvInit /\ IntervalIdle

SpecCache == InitCache /\ [][CacheNext]_vars


(***************************************************************************)
(* The cache with an issuer that fails on every poll.                      *)
(***************************************************************************)
FailingNext ==
    \/ SetGenerateOIDCTokenFn
    \/ CancelContext
    \/ RunInitialized
    \/ RunCancelledBeforeInit
    \/ RunTick
    \/ RunCancelled
    \/ \E e \in IssuerErrors : GenerateTokenFails(e)
    \/ GenerateTokenReturns
    \/ \E e \in IssuerErrors : RoleProviderFails(e)
    \/ SetLock
    \/ SetWrite
    \/ SetCloseGotFirst
    \/ SetUnlock
    \/ \E r \in Readers : RetrieveLock(r)
    \/ \E r \in Readers : RetrieveRead(r)
    \/ \E r \in Readers : RetrieveReturn(r)
    \/ \E w \in Waiters : WaitCall(w)
    \/ \E w \in Waiters : WaitCtxCancelled(w)
    \/ \E w \in Waiters : WaitGotFirst(w)
    \/ \E w \in Waiters : WaitCancelled(w)
    \/ Advance(MaxTime)

SpecFailing == InitCache /\ [][FailingNext]_vars

(***************************************************************************)
(* The cache with setGenerateOIDCTokenFn called several times, by callers  *)
(* that run one after another or at the same time, each call taken one     *)
(* statement at a time.  The assignment of cc.generateOIDCTokenFn is not   *)
(* synchronised with the read in refresh(); the value is one word, so a    *)
(* read that races with an assignment yields the value before it or the    *)
(* value after it, which the interleaving of the steps covers.             *)
(***************************************************************************)
AttachNext ==
    \/ \E a \in Attachers : \E fn \in Issuers : SetGenerateFnWrite(a, fn)
    \/ \E a \in Attachers : SetGenerateFnClose(a)
    \/ CancelContext
    \/ RunInitialized
    \/ RunCancelledBeforeInit
    \/ RunTick
    \/ RunCancelled
    \/ \E e \in IssuerErrors : GenerateTokenFails(e)
    \/ GenerateTokenReturns
    \/ \E e \in IssuerErrors : RoleProviderFails(e)
    \/ \E d \in ExpiryOffsets : RoleProviderReturns(Creds(now + d))
    \/ SetLock
    \/ SetWrite
    \/ SetCloseGotFirst
    \/ SetUnlock
    \/ Advance(MaxTime)

SpecAttach == InitCache /\ [][AttachNext]_vars

(***************************************************************************)
(* The cache with an issuer that always succeeds and answers credentials   *)
(* that expire TokenLifetime after the answer, and a run() that is         *)
(* scheduled promptly: the clock does not move while run() has a step to   *)
(* take, other than waiting for the issuer.                                *)
(***************************************************************************)
RunWaits ==
    \/ pc \in {"gen", "sts", "exited"}
    \/ pc = "waitInit" /\ ~initialized
    \/ pc = "select" /\ ~tickChan

HourlyAdvance == RunWaits /\ Advance(MaxTimeHourly)

HourlyNext ==
    \/ SetGenerateOIDCTokenFn
    \/ RunInitialized
    \/ RunTick
    \/ GenerateTokenReturns
    \/ RoleProviderReturns(Creds(now + TokenLifetime))
    \/ SetLock
    \/ SetWrite
    \/ SetCloseGotFirst
    \/ SetUnlock
    \/ HourlyAdvance

SpecHourly == InitCache /\ [][HourlyNext]_vars

(***************************************************************************)
(* Properties of the cache.                                                *)
(***************************************************************************)
\* the cache holds credentials that are not expired
ValidCached ==
    /\ cache.err = NoErr
    /\ HasKeys(CredsOf(cache))
    /\ now < cache.expires

\* caller r of Retrieve has copied its results and is about to return them
Returning(r) == rpc[r] = "reading" /\ ri[r] = Len(Fields)

\* v is a value that was stored as a whole: the placeholder, one error, or
\* the credentials of one answer of the issuer
Whole(v) ==
    \/ v = ErrValue(NotInitializedErr)
    \/ \E e \in IssuerErrors : v = ErrValue(e)
    \/ v = CredsValue(Creds(v.expires))

\* C1: when an issuer invocation has failed and its error is about to be
\* stored, the cache does not hold credentials that are still valid: a failure
\* met while the cached credentials are valid (inside the 15-minute margin or
\* not) leaves them in place, so valid credentials are never replaced by an
\* error.
StaleButValidKept ==
    /\ (pc = "lock" /\ pending.err # NoErr) => ~ValidCached
    /\ (pc = "write" /\ wi = 0 /\ pending.err # NoErr) => ~ValidCached

\* C1's case: the issuer has just failed, inside the margin, and the valid
\* credentials are still served
StaleButValidKeptWitness ==
    /\ lastErr \in IssuerErrors
    /\ pc = "select"
    /\ ValidCached
    /\ now + refreshBeforeExpirationPeriod >= cache.expires
    /\ \E r \in Readers : Returning(r) /\ rbuf[r] = cache

\* C3: whatever the interleaving of Retrieve callers and stores, the value a
\* caller of Retrieve returns is one value stored as a whole, the one in the
\* cache at that time, never a mix of the fields of two stores.
NoTornRetrieve ==
    \A r \in Readers : Returning(r) => Whole(rbuf[r]) /\ rbuf[r] = cache

\* C3's case: a caller returns credentials while a store of another value
\* waits for the lock
NoTornRetrieveWitness ==
    \E r \in Readers :
        /\ Returning(r)
        /\ rbuf[r].err = NoErr
        /\ pc = "lock"
        /\ pending # rbuf[r]

\* C4 (as stated): a caller of Retrieve that returns credentials returns
\* credentials that are not expired; once the last generated credentials
\* have expired Retrieve returns an error.
RetrieveErrorsOnceExpired ==
    \A r \in Readers :
        (Returning(r) /\ rbuf[r].err = NoErr) => now < rbuf[r].expires

\* C7: until the first refresh attempt has completed (and so at any time
\* before setGenerateOIDCTokenFn), Retrieve returns the not-yet-initialized
\* error with empty credentials, never a success.
RetrieveBeforeFirstRefresh ==
    \A r \in Readers :
        (Returning(r) /\ ~gotFirst) =>
            /\ rbuf[r].err = NotInitializedErr
            /\ CredsOf(rbuf[r]) = EmptyCreds

\* C7's case: Retrieve returns before setGenerateOIDCTokenFn is called
RetrieveBeforeFirstRefreshWitness ==
    \E r \in Readers :
        Returning(r) /\ ~initialized /\ rbuf[r].err = NotInitializedErr

\* C9: while an issuer invocation is in progress the refresh loop does not
\* hold the lock: a caller of Retrieve gets the lock at once, and what it
\* returns is the result stored before the invocation.
RetrieveNeverWaitsForIssuer ==
    pc \in {"gen", "sts"} =>
        /\ ~wlock
        /\ \A r \in Readers : rpc[r] = "idle" => ENABLED RetrieveLock(r)
        /\ \A r \in Readers : Returning(r) => rbuf[r] = cache

\* C9's case: Retrieve returns while the issuer has been hanging for a while
RetrieveNeverWaitsForIssuerWitness ==
    /\ pc = "gen"
    /\ now > 0
    /\ \E r \in Readers : Returning(r) /\ rbuf[r] = cache

(***************************************************************************)
(* Properties of the cache whose issuer always fails.                      *)
(***************************************************************************)
\* C8: with an issuer that always fails, once a failure is recorded the
\* cache holds the failure of the most recent attempt and Retrieve returns
\* it, the latch gotFirstCredsOrErr is closed, and a caller waiting in
\* waitForFirstCredsOrErr can return.
FailureIsServed ==
    /\ (pc \in {"select", "gen", "sts", "exited"} /\ lastErr \in IssuerErrors)
           => cache = ErrValue(lastErr) /\ gotFirst
    /\ \A r \in Readers :
           (Returning(r) /\ lastErr \in IssuerErrors /\ pc # "lock")
               => rbuf[r] = ErrValue(lastErr)
    /\ \A w \in Waiters :
           (wpc[w] = "waiting" /\ cache.err \in IssuerErrors /\ ~wlock)
               => ENABLED WaitGotFirst(w)

\* C8's case: a failure is recorded, Retrieve returns it, and a caller of
\* waitForFirstCredsOrErr is about to return
FailureIsServedWitness ==
    /\ pc = "select"
    /\ lastErr \in IssuerErrors
    /\ now >= 1
    /\ \E r \in Readers : Returning(r) /\ rbuf[r].err = lastErr
    /\ \E w \in Waiters : wpc[w] = "waiting"

(***************************************************************************)
(* Properties of the cache whose issuer always succeeds.                   *)
(***************************************************************************)
\* C10: with an issuer that always succeeds with credentials of one hour,
\* and a loop that handles each tick when it comes: at most one invocation
\* is begun between two stores; while the loop waits for a tick the
\* credentials are valid for longer than the margin; and an invocation for
\* credentials already obtained begins when their remaining validity is
\* within the margin and before they expire.
OneRefreshPerLifetime ==
    /\ [](calls <= 1)
    /\ []((pc = "select" /\ ~tickChan) =>
              /\ cache.err = NoErr
              /\ now + refreshBeforeExpirationPeriod < cache.expires)
    /\ [][(pc # "gen" /\ pc' = "gen" /\ gotFirst) =>
             /\ calls' = 1
             /\ cache.err = NoErr
             /\ cache.expires - refreshBeforeExpirationPeriod <= now
             /\ now < cache.expires]_vars

\* C10's case: the invocation that renews credentials is in progress, begun
\* inside the margin, after ticks that invoked nothing
OneRefreshPerLifetimeWitness ==
    /\ pc = "gen"
    /\ gotFirst
    /\ calls = 1
    /\ HasKeys(credsFromCache)
    /\ credsFromCache.expires - refreshBeforeExpirationPeriod <= now
    /\ now < credsFromCache.expires

(***************************************************************************)
(* Properties of the interval.                                             *)
(***************************************************************************)
\* C2 (as stated): once Stop has returned no new trigger is produced: a
\* trigger that run produced when i.done was closed never shows on Next().
NothingNewAfterStop ==
    [][Len(outBuf') > Len(outBuf) => ~tickStop]_vars

\* C5 (as stated): after a Reset call, with no FireNow call at all, a
\* consumer of Next() receives no trigger before the time of the call plus
\* the shortest jittered period.
ResetDelaysNextTrigger ==
    [][(Len(outBuf') < Len(outBuf) /\ resetUntil # None /\ nFire = 0)
          => now >= resetUntil]_vars

\* C6 (as stated): with FireNow calls only, each call received is one
\* trigger delivered: when nothing is staged or buffered any more, the
\* consumer has received as many triggers as run has received FireNow calls.
FireNowOneTriggerEach ==
    (/\ ~timerSeen /\ ~resetSeen /\ ~done
     /\ runPc = "select" /\ ~chSet /\ outBuf = <<>>)
        => nGot = nFire

\* C6 (amended): each FireNow call that run receives stages one trigger
\* stamped with the current time, in place of any trigger staged and not yet
\* sent, and re-arms the timer with a freshly jittered full period; FireNow
\* calls in rapid succession deliver at least one trigger and at most one
\* for each call.
FireNowStagesOneTrigger ==
    /\ []((/\ ~timerSeen /\ ~resetSeen /\ ~done /\ nFire >= 1
           /\ runPc = "select" /\ ~chSet /\ outBuf = <<>>)
              => (nGot >= 1 /\ nGot <= nFire))
    /\ [][(nFire' = nFire + 1 /\ runPc' = "select") =>
             /\ tick' = now + cfgSkew
             /\ chSet'
             /\ outBuf' = outBuf
             /\ tActive' /\ tChan' = None
             /\ (tDeadline' - now) \in DurationValues]_vars

\* C6's case: two FireNow calls were received and one trigger was delivered
FireNowStagesOneTriggerWitness ==
    /\ nFire = 2 /\ nGot = 1
    /\ ~timerSeen /\ ~resetSeen /\ ~done
    /\ runPc = "select" /\ ~chSet /\ outBuf = <<>>
    /\ now > 0

(***************************************************************************)
(* More properties of the cache.                                           *)
(***************************************************************************)
\* C11 (as stated): the step that completes the store of credentials the
\* issuer answered leaves in the cache credentials whose expiry is strictly
\* later than the clock.
StoredExpiryInFuture ==
    [][(pc = "write" /\ pending.err = NoErr /\ wi < Len(Fields)
            /\ wi' = Len(Fields))
          => now < cache'.expires]_vars

\* C12 (as stated): when the context is cancelled before
\* setGenerateOIDCTokenFn is called, run() never invokes the issuer and the
\* cache keeps the result stored at construction, whatever is called later.
CancelledFirstNeverRefreshes ==
    cancelledFirst =>
        /\ pc \in {"waitInit", "exited"}
        /\ calls = 0
        /\ cache = ErrValue(NotInitializedErr)

\* C13: gotFirstCredsOrErr is closed by the store of the first refresh
\* outcome, under the write lock and when every field is written, and is
\* never opened again; while it is closed no caller of Retrieve returns the
\* not-yet-initialized error.
LatchClosedWithFirstStore ==
    /\ [](gotFirst => \A r \in Readers :
              Returning(r) => rbuf[r].err # NotInitializedErr)
    /\ [](gotFirst => cache.err # NotInitializedErr \/ (wlock /\ wi < Len(Fields)))
    /\ [][gotFirst => gotFirst']_vars
    /\ [][(~gotFirst /\ gotFirst') =>
             /\ wlock /\ wlock'
             /\ rlocks = {}
             /\ cache = pending
             /\ cache' = cache]_vars

\* C13's case: the latch is closed by the store of a failure and a caller
\* of Retrieve returns that failure while a caller of
\* waitForFirstCredsOrErr has not returned yet
LatchClosedWithFirstStoreWitness ==
    /\ gotFirst
    /\ \E r \in Readers : Returning(r) /\ rbuf[r].err \in IssuerErrors
    /\ \E w \in Waiters : wpc[w] = "waiting"

\* C15 (as stated): once the context is cancelled, the loop of run() begins
\* no issuer invocation: from its select it does not go to refresh().
NoRefreshAfterCancel ==
    [][(ctxDone /\ pc = "select") => pc' # "gen"]_vars

(***************************************************************************)
(* The cache with callers of waitForFirstCredsOrErr that are scheduled: a  *)
(* caller whose select has a ready case takes one.                         *)
(***************************************************************************)
WaitersFair ==
    \A w \in Waiters :
        WF_vars(WaitGotFirst(w)) /\ WF_vars(WaitCancelled(w))

SpecWaiting == InitCache /\ [][CacheNext]_vars /\ WaitersFair

\* C14: a caller of waitForFirstCredsOrErr returns once its context is
\* cancelled or the first refresh outcome is stored, also when
\* setGenerateOIDCTokenFn is never called; and a waiting caller takes no
\* step away from run().
WaitReturns ==
    /\ \A w \in Waiters :
           (wpc[w] = "cancelled" \/ (wpc[w] = "waiting" /\ gotFirst))
               ~> (wpc[w] = "idle")
    /\ []((\E w \in Waiters : wpc[w] # "idle") =>
              /\ (pc = "waitInit" /\ initialized) => ENABLED RunInitialized
              /\ (pc = "select" /\ tickChan) => ENABLED RunTick
              /\ (pc \in {"gen", "sts"}) => ENABLED GenerateTokenReturns
                                            \/ ENABLED RoleProviderFails("failA")
              /\ (pc = "lock" /\ rlocks = {}) => ENABLED SetLock)

\* C14's case: a caller waits, its context is cancelled, and
\* setGenerateOIDCTokenFn has not been called
WaitReturnsWitness ==
    \E w \in Waiters : wpc[w] = "cancelled" /\ ~initialized /\ ~gotFirst

(***************************************************************************)
(* More properties of the interval.                                        *)
(***************************************************************************)
\* C16: at most one trigger waits in the output channel, and while one
\* waits there run() holds the next trigger back: its send case cannot be
\* taken.
AtMostOnePending ==
    /\ Len(outBuf) <= 1
    /\ (Len(outBuf) = 1 /\ chSet /\ runPc = "select") => ~ENABLED RunSend

\* C16's case: a trigger waits to be consumed and run() holds a later one
AtMostOnePendingWitness ==
    /\ Len(outBuf) = 1
    /\ chSet
    /\ runPc = "select"
    /\ tick > outBuf[1]

\* C17: a send hands over the staged trigger and clears ch in the same step;
\* ch is set again only by the receipt of a timer firing or of a FireNow
\* request; a consumer takes the oldest trigger out of the channel; so, with
\* FireNow requests only, the triggers consumed, waiting and staged are
\* never more than the requests received.
NoDoubleDelivery ==
    /\ [][Len(outBuf') > Len(outBuf) =>
             /\ chSet /\ ~chSet'
             /\ outBuf' = Append(outBuf, tick)]_vars
    /\ [][(~chSet /\ chSet') =>
             \/ (tChan # None /\ tChan' = None /\ tick' = tChan)
             \/ nFire' = nFire + 1]_vars
    /\ [][nGot' # nGot =>
             /\ nGot' = nGot + 1
             /\ outBuf # <<>>
             /\ outBuf' = Tail(outBuf)]_vars
    /\ [](~timerSeen =>
             nGot + Len(outBuf) + (IF chSet THEN 1 ELSE 0) <= nFire)

\* C17's case: one FireNow request was received, its trigger was consumed,
\* and nothing more is staged or waiting
NoDoubleDeliveryWitness ==
    /\ nFire = 1 /\ nGot = 1
    /\ ~timerSeen
    /\ ~chSet /\ outBuf = <<>>
    /\ runPc = "select"
(***************************************************************************)
(* C18 (as stated): the timestamps of the triggers consumed from Next()    *)
(* never decrease from one consumption to the next, under every            *)
(* interleaving of timer firings, Reset, FireNow and consumers.            *)
(* Timer triggers carry the time of cfg.Clock and FireNow triggers carry   *)
(* time.Now(); with a clock of its own the two scales are mixed.           *)
(***************************************************************************)
ConsumedNonDecreasing ==
    [][(nGot' # nGot /\ lastGot # None) => lastGot <= lastGot']_vars

(***************************************************************************)
(* C19: New with a period <= 0 panics: no Interval is returned (no caller  *)
(* ever acts on one), no timer is created and run(timer) is not started,   *)
(* and the period is left as given; with a period > 0 New arms the timer   *)
(* and starts run(timer) once.                                             *)
(***************************************************************************)
NewPanicsOnNonPositive ==
    /\ [][(runPc = "none" /\ runPc' # "none") =>
             IF cfgDuration <= 0
               THEN /\ runPc' = "panicked"
                    /\ tasks' = 0
                    /\ ~tActive'
               ELSE /\ runPc' = "select"
                    /\ tasks' = 1
                    /\ tActive']_vars
    /\ [](runPc = "panicked" =>
             /\ tasks = 0
             /\ ~tActive /\ tChan = None
             /\ ~done /\ closes = 0
             /\ outBuf = <<>> /\ nGot = 0
             /\ \A c \in Callers : cpc[c] = "idle")
    /\ [][runPc = "panicked" => runPc' = "panicked"]_vars
    /\ [][cfgDuration' = cfgDuration]_vars
    /\ [](runPc \in {"select", "blocked", "exited"} => cfgDuration > 0 /\ tasks = 1)
    /\ [](tasks <= 1)

NewPanicsOnNonPositiveWitness ==
    /\ runPc = "panicked"
    /\ cfgDuration = 0
    /\ now > 0

(***************************************************************************)
(* C20: however many times Stop is called, and whatever Reset, FireNow and *)
(* the consumers do meanwhile, i.done is closed exactly once and stays     *)
(* closed, a call of Stop can always be taken and complete, and a Stop     *)
(* that comes after the first one changes nothing of the interval.         *)
(***************************************************************************)
StopIsIdempotent ==
    /\ [](closes <= 1)
    /\ [](done <=> closes = 1)
    /\ [](closeOnce <=> done)
    /\ [][done => done']_vars
    /\ [](Exists => ENABLED Stop)
    /\ [][(~stopAgain /\ stopAgain') =>
             /\ done /\ closes = 1
             /\ UNCHANGED <<now, cacheVars, calls, ivCfg, tActive, tDeadline,
                            tChan, runPc, tick, chSet, outBuf, cpc, ivHist,
                            done, closeOnce, closes, tasks>>]_vars

StopIsIdempotentWitness ==
    /\ stopAgain
    /\ done
    /\ closes = 1
    /\ outBuf # <<>>
    /\ \E c \in Callers : cpc[c] # "idle"
    /\ runPc = "select"

(***************************************************************************)
(* C21: every call of Reset or FireNow on an interval made by New returns. *)
(* In every state where a caller is in its select, a case of that select   *)
(* is ready: while i.done is open run is in its own select and can receive *)
(* the call, and once Stop has closed i.done the caller can take its       *)
(* i.done case, whether run is still there or has exited.  The call ends   *)
(* in one of these two ways only, and the second changes nothing of run,   *)
(* the timer or the output.  A select with a ready case does not wait.     *)
(***************************************************************************)
CallsReturn ==
    /\ [](\A c \in Callers : (cpc[c] = "reset" /\ ~done) => ENABLED RunReset(c))
    /\ [](\A c \in Callers : (cpc[c] = "fire" /\ ~done) => ENABLED RunFire(c))
    /\ [](\A c \in Callers : (cpc[c] # "idle" /\ done) => ENABLED CallAbandoned(c))
    /\ [][\A c \in Callers : (cpc[c] # "idle" /\ cpc'[c] = "idle") =>
             \/ /\ runPc = "select" /\ ~done
                /\ IF cpc[c] = "reset" THEN resetSeen' ELSE nFire' = nFire + 1
             \/ /\ done /\ closes = 1
                /\ UNCHANGED <<runPc, tActive, tDeadline, tChan, tick, chSet,
                               outBuf>>]_vars
    /\ [][\A c \in Callers : cpc[c] # "idle" => cpc'[c] \in {cpc[c], "idle"}]_vars

CallsReturnWitness ==
    /\ runPc = "exited"
    /\ \E c \in Callers : cpc[c] = "reset"
    /\ \E c \in Callers : cpc[c] = "fire"
(***************************************************************************)
(* C22.  A step of run's timer case while no Reset or FireNow has been     *)
(* called: it takes the firing of the timer as the trigger.                *)
(***************************************************************************)
TimerCaseAlone ==
    /\ tChan # None /\ tChan' = None /\ tick' = tChan
    /\ nFire' = 0 /\ ~resetSeen'
    /\ \A c \in Callers : cpc[c] = "idle"

(***************************************************************************)
(* C22 (as stated): absent Reset and FireNow, the time from one trigger to *)
(* the next one is within the jitter's bound of the period: the trigger    *)
(* after the one run has just taken is due between period - spread and     *)
(* period after it (exactly a period after it without jitter).             *)
(***************************************************************************)
TriggersOnePeriodApart ==
    [][TimerCaseAlone => (tDeadline' - tick') \in DurationValues]_vars

(***************************************************************************)
(* C22 (amended): absent Reset and FireNow, each time run receives a       *)
(* firing of the timer it re-arms the timer with a fresh value of          *)
(* jitter(period), counted from the moment of the receive: the next        *)
(* trigger is due within the jitter's bound of the period after that       *)
(* moment, hence no sooner than the jitter's lower bound after the trigger *)
(* just taken, and exactly the jittered period after it when run receives  *)
(* the firing in the instant it occurs.                                    *)
(***************************************************************************)
EachWaitFreshlyJittered ==
    [][TimerCaseAlone =>
         /\ tActive'
         /\ (tDeadline' - now) \in DurationValues
         /\ tDeadline' - tick' >= MinDuration
         /\ (tick' = now) => (tDeadline' - tick') \in DurationValues]_vars

EachWaitFreshlyJitteredWitness ==
    /\ timerSeen /\ nFire = 0 /\ ~resetSeen
    /\ tChan # None
    /\ tChan > tick
    /\ (tChan - tick) \in DurationValues

(***************************************************************************)
(* C23: the timer New creates waits a freshly jittered period when         *)
(* cfg.FirstDuration is zero, which is never an immediate firing, and      *)
(* exactly cfg.FirstDuration when it is not zero; every later arming of    *)
(* the timer waits a jittered period whatever cfg.FirstDuration is.        *)
(***************************************************************************)
FirstWaitOnly ==
    /\ [][(runPc = "none" /\ runPc' = "select") =>
             /\ tActive'
             /\ IF cfgFirst = 0
                   THEN (tDeadline' - now) \in DurationValues /\ tDeadline' > now
                   ELSE tDeadline' - now = cfgFirst]_vars
    /\ [][(runPc = "select" /\ tActive' /\ (tDeadline' # tDeadline \/ ~tActive)) =>
             (tDeadline' - now) \in DurationValues]_vars
    /\ [][(tChan = None /\ tChan' # None) => tChan' = tDeadline]_vars

FirstWaitOnlyWitness ==
    /\ cfgFirst # 0 /\ ~cfgJitter /\ cfgFirst # cfgDuration
    /\ timerSeen /\ nFire = 0 /\ ~resetSeen
    /\ tick = cfgFirst
    /\ tActive
    /\ tDeadline = tick + cfgDuration

(***************************************************************************)
(* C24: Stop leaves the output channel as it is: the step that closes      *)
(* i.done changes nothing of what i.ch holds, a trigger that i.ch holds    *)
(* after Stop can be received and is the one that was sent, and nothing    *)
(* comes out of i.ch but what run sent on it, so a consumer on an empty    *)
(* i.ch receives nothing, before Stop and after it.                        *)
(***************************************************************************)
StopKeepsOutput ==
    /\ [][(~done /\ done') => outBuf' = outBuf /\ nGot' = nGot]_vars
    /\ [](outBuf # <<>> => ENABLED Consume)
    /\ [](outBuf = <<>> => ~ENABLED Consume)
    /\ [][nGot' # nGot =>
             /\ outBuf # <<>>
             /\ lastGot' = Head(outBuf)
             /\ outBuf' = Tail(outBuf)]_vars
    /\ [][outBuf' # outBuf =>
             \/ nGot' = nGot + 1
             \/ /\ runPc = "select" /\ chSet
                /\ outBuf' = Append(outBuf, tick)]_vars
    /\ [][(runPc = "exited" /\ outBuf = <<>>) => outBuf' = <<>>]_vars

StopKeepsOutputWitness ==
    /\ done
    /\ runPc = "exited"
    /\ outBuf # <<>>
    /\ nGot = 0

(***************************************************************************)
(* The key of an entry is its text before the first "="; two keys are the  *)
(* same when they are equal without regard to case.                        *)
(***************************************************************************)
EntryKey(kv) == ToUpper(SplitKey(kv))

(***************************************************************************)
(* C25 (as stated): whatever AddTrusted, AddUnique, AddFullTrusted and     *)
(* AddFullUnique calls were made on an empty SafeEnv, no entry has a key   *)
(* that is, without regard to case, one of the unsafe variable names, and  *)
(* an add whose key is such a name leaves the environment as it was.       *)
(***************************************************************************)
NoUnsafeKeyStored ==
    /\ \A i \in 1..Len(env) : EntryKey(env[i]) \notin unsafeEnvironmentVars
    /\ \A k \in EnvKeys, v \in EnvValues :
          ToUpper(TrimSpace(k)) \in unsafeEnvironmentVars =>
              /\ add(env, FALSE, k, v) = env
              /\ add(env, TRUE, k, v) = env

(***************************************************************************)
(* C26 (as stated): a call of AddUnique or AddFullUnique never adds an     *)
(* entry whose key is, without regard to case, the key of an entry that is *)
(* already there.                                                          *)
(***************************************************************************)
UniqueAddKeepsKeysUnique ==
    [][lastOp' = "unique" =>
         \A j \in (Len(env) + 1)..Len(env') :
             \A i \in 1..(j - 1) : EntryKey(env'[i]) # EntryKey(env'[j])]_vars

(***************************************************************************)
(* C27: when run() takes a tick, the issuer is invoked exactly when the    *)
(* cache holds an error, or credentials without keys, or credentials whose *)
(* expiry is not later than the clock plus refreshBeforeExpirationPeriod   *)
(* (an expiry equal to it included); otherwise the tick makes no call of   *)
(* the issuer and run() is back in its select.  The tick itself never      *)
(* changes the cache.                                                      *)
(***************************************************************************)
TickRefreshesIffNeeded ==
    [][(pc = "select" /\ tickChan /\ ~tickChan') =>
         /\ cache' = cache
         /\ IF \/ cache.err # NoErr
               \/ cache.key = 0 \/ cache.secret = 0
               \/ cache.expires <= now + refreshBeforeExpirationPeriod
              THEN calls' = calls + 1 /\ pc' = "gen"
              ELSE calls' = calls /\ pc' = "select"]_vars

TickRefreshesIffNeededWitness ==
    /\ pc = "gen"
    /\ tickerOn
    /\ calls = 1
    /\ cache.err = NoErr
    /\ cache.expires = now + refreshBeforeExpirationPeriod

(***************************************************************************)
(* C28: when an issuer invocation fails and the cache holds no credentials *)
(* that are still valid (an error, or credentials whose expiry the clock   *)
(* has reached or passed), the failure is stored: the store is made as a   *)
(* whole under the write lock with no reader inside, and from then on      *)
(* Retrieve returns that error with empty credentials, until the store of  *)
(* a later attempt.                                                        *)
(***************************************************************************)
FailureReplacesExpired ==
    /\ [][(pc \in {"gen", "sts"} /\ pc' \notin {"gen", "sts"} /\ lastErr' \in IssuerErrors) =>
             IF cache.key # 0 /\ cache.secret # 0 /\ now < cache.expires
               THEN pc' = "select" /\ cache' = cache
               ELSE pc' = "lock" /\ pending' = ErrValue(lastErr')]_vars
    /\ [][(pc = "write" /\ pending.err \in IssuerErrors /\ wi < Len(Fields) /\ wi' = Len(Fields)) =>
             /\ wlock /\ rlocks = {}
             /\ cache' = ErrValue(pending.err)]_vars
    /\ [](\A r \in Readers :
             (Returning(r) /\ cache.err \in IssuerErrors) =>
                 /\ rbuf[r] = ErrValue(cache.err)
                 /\ CredsOf(rbuf[r]) = EmptyCreds)
    /\ [][(~wlock /\ cache.err \in IssuerErrors /\ cache' # cache) => FALSE]_vars
    /\ [][(cache.err \in IssuerErrors /\ cache'.err = NoErr) =>
             pc = "write" /\ pending.err = NoErr]_vars

FailureReplacesExpiredWitness ==
    /\ pc = "lock"
    /\ pending.err \in IssuerErrors
    /\ cache.err = NoErr
    /\ cache.key # 0
    /\ now = cache.expires
    /\ \E r \in Readers : Returning(r) /\ rbuf[r] = cache

(***************************************************************************)
(* C29 (as stated): a refresh attempt is over within retrieveTimeout of    *)
(* its beginning, whether the issuer answers or not, in the generation of  *)
(* the token as in the exchange for credentials.                           *)
(***************************************************************************)
RefreshEndsInTime ==
    pc \in {"gen", "sts"} => now <= refreshAt + retrieveTimeout

(***************************************************************************)
(* C30: a failure of the issuer is retried on the next tick, at the same   *)
(* pace and for as long as run()'s context is not cancelled.  While run()  *)
(* is in its loop the ticker is on and its next tick is in the channel or  *)
(* due within refreshCheckInterval; the tick taken after a failed attempt  *)
(* always invokes the issuer again; run() leaves the loop only when its    *)
(* context is cancelled.  An attempt in progress can be answered with      *)
(* credentials, these are stored as soon as no reader holds the lock, and  *)
(* a Retrieve that returns then returns what the cache holds.              *)
(***************************************************************************)
FailureIsRetried ==
    /\ [](pc = "select" =>
             /\ tickerOn
             /\ tickChan \/ (now < tickerNext /\ tickerNext <= now + refreshCheckInterval))
    /\ [](pc = "select" /\ tickChan => ENABLED RunTick)
    /\ [][(pc = "select" /\ tickChan /\ ~tickChan' /\ lastErr \in IssuerErrors) =>
             pc' = "gen" /\ calls' = calls + 1]_vars
    /\ [][(pc # "exited" /\ pc' = "exited") => ctxDone]_vars
    /\ [](pc # "panic")
    /\ [](pc = "gen" => ENABLED GenerateTokenReturns)
    /\ [](pc = "sts" => \A d \in ExpiryOffsets : ENABLED RoleProviderReturns(Creds(now + d)))
    /\ [](pc = "lock" /\ rlocks = {} => ENABLED SetLock)
    /\ [][(pc = "write" /\ wi < Len(Fields) /\ wi' = Len(Fields)) => cache' = pending]_vars
    /\ [](\A r \in Readers : Returning(r) => rbuf[r] = cache)

FailureIsRetriedWitness ==
    /\ pc = "gen"
    /\ tickerOn
    /\ calls = 1
    /\ cache.err \in IssuerErrors
    /\ lastErr \in IssuerErrors
    /\ refreshAt = now
    /\ ~ctxDone
(***************************************************************************)
(* C31: run() does nothing before initialized is closed: an issuer         *)
(* invocation begun, a store begun, a cache that is no longer the          *)
(* placeholder or a ticker created each imply that initialized is closed.  *)
(* Once it is closed run() can leave its first select, and the step that   *)
(* leaves it for the loop begins the first issuer invocation at once: no   *)
(* ticker exists yet and no tick was waited for.                           *)
(***************************************************************************)
NothingBeforeInitialized ==
    /\ []((\/ pc \notin {"waitInit", "exited"}
           \/ calls > 0 \/ refreshAt # None
           \/ cache # ErrValue(NotInitializedErr)
           \/ pending # NoResult \/ wlock
           \/ tickerOn \/ tickChan
           \/ gotFirst) => initialized)
    /\ [](pc = "waitInit" /\ initialized => ENABLED RunInitialized)
    /\ [][(pc = "waitInit" /\ pc' \notin {"waitInit", "exited"}) =>
             /\ initialized
             /\ pc' = "gen" /\ calls' = 1 /\ refreshAt' = now
             /\ ~tickerOn /\ ~tickerOn' /\ ~tickChan]_vars

NothingBeforeInitializedWitness ==
    /\ pc = "gen"
    /\ ~tickerOn
    /\ cache = ErrValue(NotInitializedErr)
    /\ refreshAt = now
    /\ now > 0

(***************************************************************************)
(* C32: however many times setGenerateOIDCTokenFn is called, one call      *)
(* after another or several at once, close(initialized) is executed        *)
(* exactly once (a second execution would panic) and every call returns;   *)
(* and run(), which reads cc.generateOIDCTokenFn only after initialized is *)
(* closed, never finds it nil.                                             *)
(***************************************************************************)
AttachIsOneShot ==
    /\ [](initCloses <= 1 /\ (initialized <=> initCloses = 1))
    /\ [](\A a \in Attachers : apc[a] = "wrote" => ENABLED SetGenerateFnClose(a))
    /\ [](initialized => generateFn \in Issuers)
    /\ [](pc # "panic")
    /\ [][calls' > calls => generateFn \in Issuers]_vars

AttachIsOneShotWitness ==
    /\ nAttach = MaxAttach
    /\ \A a \in Attachers : apc[a] = "wrote"
    /\ initCloses = 1
    /\ generateFn = "fn2"
    /\ pc = "gen"
    /\ calls = 1
    /\ gotFirst

(***************************************************************************)
(* C33: the step in which run receives a Reset clears ch, so the trigger   *)
(* it held staged is not sent; the step puts nothing into i.ch and stages  *)
(* nothing; and ch is set again only together with a tick newly taken from *)
(* the timer or from a FireNow, so what is sent later was staged later.    *)
(***************************************************************************)
ResetDropsStaged ==
    /\ [][(\E c \in Callers : cpc[c] = "reset" /\ cpc'[c] = "idle" /\ ~done) =>
             /\ ~chSet'
             /\ outBuf' = outBuf
             /\ tick' = tick
             /\ nGot' = nGot]_vars
    /\ [][Len(outBuf') > Len(outBuf) => chSet]_vars
    /\ [][(~chSet /\ chSet') =>
             \/ (tChan # None /\ tick' = tChan)
             \/ (nFire' = nFire + 1 /\ tick' = WallNow)]_vars
    /\ []((timerSeen /\ resetSeen /\ nFire = 0 /\ tChan = None /\ ~done
           /\ runPc = "select" /\ now < resetUntil) => ~chSet)

\* C33's case: the one firing of the timer that run received was staged and
\* never sent, a Reset was received, and nothing is staged any more
ResetDropsStagedWitness ==
    /\ timerSeen /\ resetSeen /\ nFire = 0
    /\ nGot = 0 /\ outBuf = <<>>
    /\ ~chSet
    /\ tick # None
    /\ tChan = None /\ tActive
    /\ runPc = "select"

(***************************************************************************)
(* C34: when run receives a Reset or a FireNow while the timer's channel   *)
(* holds a firing it has not received, that step takes the firing out of   *)
(* the channel and drops it: the firing is not counted as received, it is  *)
(* not put into tick by a Reset (which stages nothing) and a FireNow       *)
(* stages time.Now() instead, nothing is sent, and the timer is re-armed   *)
(* with a full period.  The timer's channel is filled again only by the    *)
(* armed timer reaching its deadline.                                      *)
(***************************************************************************)
StaleFiringDiscarded ==
    /\ [][(/\ tChan # None
           /\ \/ \E c \in Callers : cpc[c] = "reset" /\ cpc'[c] = "idle" /\ ~done
              \/ nFire' = nFire + 1) =>
             /\ tChan' = None
             /\ timerSeen' = timerSeen
             /\ outBuf' = outBuf
             /\ runPc' = "select"
             /\ tActive'
             /\ (tDeadline' - now) \in DurationValues
             /\ IF nFire' = nFire + 1
                   THEN chSet' /\ tick' = WallNow
                   ELSE ~chSet' /\ tick' = tick]_vars
    /\ [][(tChan' # None /\ tChan' # tChan) =>
             /\ tChan = None
             /\ tActive /\ ~tActive'
             /\ now >= tDeadline
             /\ tChan' = now]_vars
    /\ [][timerSeen' # timerSeen => (tChan # None /\ tick' = tChan /\ tChan' = None)]_vars

\* C34's case: the first wait ended at time cfgFirst, run received no firing
\* and no Reset, and it received one FireNow later than that: the firing
\* that was in the timer's channel is gone and the timer is armed again
StaleFiringDiscardedWitness ==
    /\ nFire = 1 /\ ~timerSeen /\ ~resetSeen
    /\ cfgFirst = 1
    /\ tick > cfgFirst
    /\ tChan = None
    /\ tActive
    /\ tDeadline >= tick + MinDuration
    /\ runPc = "select"

(***************************************************************************)
(* C35 (as stated): while a tick is staged and i.ch is full, so that the   *)
(* send cannot go on, every step other than the receipt of a Reset leaves  *)
(* the tick staged and as it was.                                          *)
(***************************************************************************)
StagedStaysAsItWas ==
    [][(/\ chSet /\ Len(outBuf) = ChCapacity
        /\ ~\E c \in Callers : cpc[c] = "reset" /\ cpc'[c] = "idle" /\ ~done)
          => (chSet' /\ tick' = tick)]_vars

(***************************************************************************)
(* C35 (amended): a staged tick stays staged until it is sent or a Reset   *)
(* is received; the send puts it into i.ch once and unstages it; while it  *)
(* is staged, the receipt of a further timer firing or of a FireNow puts   *)
(* the newer timestamp in its place, so that one tick stays staged, the    *)
(* latest.                                                                 *)
(***************************************************************************)
StagedStaysOrIsReplaced ==
    /\ [][(/\ chSet
           /\ ~\E c \in Callers : cpc[c] = "reset" /\ cpc'[c] = "idle" /\ ~done) =>
             \/ chSet' /\ outBuf' = outBuf /\ nGot' = nGot
             \/ chSet' /\ outBuf' = Tail(outBuf) /\ nGot' = nGot + 1 /\ tick' = tick
             \/ ~chSet' /\ outBuf' = Append(outBuf, tick) /\ tick' = tick]_vars
    /\ [][(chSet /\ chSet' /\ Len(outBuf) = ChCapacity) => outBuf' = outBuf \/ nGot' = nGot + 1]_vars
    /\ [][(chSet /\ tick' # tick) =>
             /\ chSet'
             /\ tick' > tick
             /\ \/ (tChan # None /\ tick' = tChan /\ tChan' = None)
                \/ (nFire' = nFire + 1 /\ tick' = WallNow)]_vars
    /\ [](Len(outBuf) <= ChCapacity)

\* C35's case: run received a timer firing and two FireNow requests and no
\* Reset, one tick was sent and none consumed, and one tick, a later one,
\* is staged: the third was replaced while it was staged
StagedStaysOrIsReplacedWitness ==
    /\ timerSeen /\ nFire = 2 /\ ~resetSeen
    /\ nGot = 0
    /\ Len(outBuf) = ChCapacity
    /\ chSet
    /\ tick > outBuf[1]
    /\ runPc = "select"

(***************************************************************************)
(* The interval with one caller of Reset and FireNow, and a run whose      *)
(* select, which chooses at random among its ready cases, does not pass    *)
(* over the i.done case for ever once it is ready.                         *)
(***************************************************************************)
StoppingCallers == {1}

StoppingNext ==
    \/ Stop
    \/ \E c \in StoppingCallers : ResetCall(c)
    \/ \E c \in StoppingCallers : FireNowCall(c)
    \/ \E c \in StoppingCallers : CallAbandoned(c)
    \/ Consume
    \/ RunTimer
    \/ \E c \in StoppingCallers : RunReset(c)
    \/ \E c \in StoppingCallers : RunFire(c)
    \/ RunSend
    \/ RunDone
    \/ TimerFires
    \/ IntervalAdvance

SpecStopping == InitInterval /\ [][StoppingNext]_vars /\ WF_vars(RunDone)

(***************************************************************************)
(* C36: once i.done is closed run returns, whatever it held staged, and    *)
(* whether the timer was armed or had fired; its return stops the timer,   *)
(* which is never armed again and never fires again.                       *)
(***************************************************************************)
StopEndsRun ==
    /\ done ~> (runPc = "exited")
    /\ [](done /\ runPc # "exited" => runPc = "select" /\ ENABLED RunDone)
    /\ [][(runPc # "exited" /\ runPc' = "exited") => (done /\ ~tActive')]_vars
    /\ [](runPc = "exited" => ~tActive /\ ~ENABLED TimerFires)
    /\ [][runPc = "exited" => (runPc' = "exited" /\ tChan' = tChan)]_vars

\* C36's case: run has returned while the timer was armed and a tick was
\* staged, after a Reset and a FireNow
StopEndsRunWitness ==
    /\ runPc = "exited"
    /\ done
    /\ ~tActive
    /\ tChan = None
    /\ now < tDeadline
    /\ chSet
    /\ resetSeen /\ nFire > 0

(***************************************************************************)
(* C38: run is never stuck in "<-timer.Chan()" after a timer.Stop() that   *)
(* answered false.  While run is in its select the timer is armed, or it   *)
(* has fired and the firing is still in its channel: New arms it, and      *)
(* every step that takes a firing out of the channel arms it again.        *)
(***************************************************************************)
DrainNeverBlocks ==
    /\ [](runPc # "blocked")
    /\ [](runPc = "select" => (tActive \/ tChan # None))
    /\ [](tActive => tChan = None)
    /\ [][(tChan # None /\ tChan' = None) =>
             (tActive' /\ tDeadline' >= now /\ runPc' = "select")]_vars
    /\ [][(\/ \E c \in Callers : cpc[c] = "reset" /\ cpc'[c] = "idle" /\ ~done
           \/ nFire' = nFire + 1) =>
             /\ ~tActive => tChan # None
             /\ runPc' = "select"
             /\ tActive' /\ tChan' = None]_vars

\* C38's case: a FireNow was received after the first wait had ended, with
\* no firing received before it; run went on, and the trigger of the
\* FireNow was sent and consumed
DrainNeverBlocksWitness ==
    /\ nFire = 1 /\ ~timerSeen /\ ~resetSeen
    /\ cfgFirst = 1
    /\ nGot = 1
    /\ lastGot > cfgFirst
    /\ runPc = "select"
    /\ tActive

(***************************************************************************)
(* NewNoop: an Interval with i.ch and i.done only.  i.reset and i.fire are *)
(* nil channels, on which a send never goes on, there is no timer and no   *)
(* run; the select of Reset and of FireNow is left with its i.done case.   *)
(***************************************************************************)
IntervalNoop ==
    /\ cfgDuration = 0
    /\ cfgFirst = 0
    /\ cfgJitter = FALSE
    /\ cfgSkew = 0
    /\ tasks = 0
    /\ tActive = FALSE
    /\ tDeadline = 0
    /\ tChan = None
    /\ runPc = "noop"
    /\ tick = 0
    /\ chSet = FALSE
    /\ outBuf = <<>>
    /\ done = FALSE
    /\ closeOnce = FALSE
    /\ closes = 0
    /\ stopAgain = FALSE
    /\ cpc = [c \in Callers |-> "idle"]
    /\ resetCallAt = None
    /\ resetUntil = None
    /\ resetSeen = FALSE
    /\ tickStop = FALSE
    /\ nFire = 0
    /\ timerSeen = FALSE
    /\ nGot = 0
    /\ lastGot = None

InitNoop == now = 0 /\ CacheInit /\ SafeEnvInit /\ IntervalNoop

NoopNext ==
    \/ Stop
    \/ \E c \in Callers : ResetCall(c)
    \/ \E c \in Callers : FireNowCall(c)
    \/ \E c \in Callers : CallAbandoned(c)
    \/ IntervalAdvance

SpecNoop == InitNoop /\ [][NoopNext]_vars

(***************************************************************************)
(* C37 (as stated): on an interval made by NewNoop a call of Reset or of   *)
(* FireNow that is in progress can return, whether or not Stop was called. *)
(***************************************************************************)
NoopCallsDoNotBlock ==
    runPc = "noop" =>
        \A c \in Callers : cpc[c] # "idle" => ENABLED CallAbandoned(c)

(***************************************************************************)
(* C39: when the issuer fails, refreshIfNeeded tests the credentials it    *)
(* read at its start against the clock as it is when the failure is        *)
(* handled: credentials that were valid when refreshIfNeeded began and     *)
(* have expired since are replaced by the error, and credentials that are  *)
(* still valid then are kept.                                              *)
(***************************************************************************)
FailureJudgedWhenHandled ==
    /\ [][(/\ pc \in {"gen", "sts"} /\ pc' \notin {"gen", "sts"}
           /\ lastErr' \in IssuerErrors
           /\ HasKeys(credsFromCache)
           /\ refreshAt < credsFromCache.expires
           /\ now >= credsFromCache.expires) =>
             /\ pc' = "lock"
             /\ pending' = ErrValue(lastErr')
             /\ now' = now]_vars
    /\ [][(/\ pc \in {"gen", "sts"} /\ pc' \notin {"gen", "sts"}
           /\ lastErr' \in IssuerErrors
           /\ HasKeys(credsFromCache)
           /\ now < credsFromCache.expires) =>
             /\ pc' = "select"
             /\ cache' = cache
             /\ pending' = pending]_vars
    /\ []((pc \in {"gen", "sts"}) =>
             /\ refreshAt # None /\ refreshAt <= now
             /\ credsFromCache = CredsOf(cache))
    /\ []((pc \in {"lock", "write"} /\ pending.err \in IssuerErrors /\ ~wlock) =>
             ~(HasKeys(CredsOf(cache)) /\ now < cache.expires))

\* C39's case: the issuer is being called, the credentials read at the start
\* were valid then and have expired since, and a failure handled now is
\* stored
FailureJudgedWhenHandledWitness ==
    /\ pc = "sts"
    /\ HasKeys(credsFromCache)
    /\ refreshAt < credsFromCache.expires
    /\ now >= credsFromCache.expires
    /\ \E e \in IssuerErrors : ENABLED (RoleProviderFails(e) /\ pc' = "lock")

====
